---------------------------- MODULE Spec2Model ----------------------------
(***************************************************************************)
(* Model of the hybrid retrieval engine of the chat assistant:             *)
(*   src/src/rag/vectorDb.ts   VectorDB (cosine similarity, MMR selection) *)
(*   src/src/rag/hybrid.ts     tokenize, bm25Score, HybridRetriever        *)
(*   src/src/rag/retriever.ts  Retriever (context assembly)                *)
(*                                                                         *)
(* Numbers.  The code computes in IEEE floating point.  The model computes *)
(* in fixed point: an embedding component is an integer, a unit vector     *)
(* has Euclidean length Scale, a cosine similarity is an integer count of  *)
(* 1/(Scale*Scale), minScore is a count of hundredths, mmrLambda a count   *)
(* of tenths.  normalize stores each component as the nearest whole count  *)
(* of 1/Scale, as the code stores it as the nearest 32-bit float.  The raw *)
(* embeddings are drawn from integer vectors whose length is a whole       *)
(* multiple of Scale (or zero), so normalize is exact on them, except in   *)
(* the specification SpecCos, which also holds one whose length is not.    *)
(***************************************************************************)
EXTENDS Integers, Sequences, FiniteSets, TLC

VARIABLES
    index,      \* the index files: [kb, tx, sum], each a VectorIndex.chunks
    db,         \* the VectorDB built from index.kb (Retriever.db), or None
    hybrid,     \* HybridRetriever: [txDb, sumDb, txDocs, sumDocs]
    pc,         \* position of the call in flight: "idle", "embedding", "done"
    req,        \* the arguments of the latest call
    embedCalls, \* embedding requests issued by the latest call
    resp,       \* the embedding service's answer to it, or None
    picked,     \* VectorDB.search's local `selected` when its MMR loop ended
    ret,        \* the value the latest call returned (None: null, or none yet)
    threw,      \* whether the latest call raised an exception to its caller
    trace,      \* the calls' starts and resumptions, or the requests and
                \* writes of ChatPage's initialisation, in order
    idb,        \* the browser's IndexedDB vector store: [meta, chunks]
    txRagDB,    \* the browser's IndexedDB store of the transaction indexes:
                \* [meta, tx_chunks, sum_chunks, raw]
    page        \* ChatPage: its conversations, the current conversation's
                \* id, the apiRequest calls made, the timers set, the clock

vars == <<index, db, hybrid, pc, req, embedCalls, resp, picked, ret, threw,
         trace, idb, txRagDB, page>>

\* An optional value (null, undefined, or a value) is the empty set when
\* absent and {v} when present.
None == {}
Some(v) == {v}
The(o) == CHOOSE v \in o : TRUE

\* an IndexedDB store without meta record and without chunks
NoStore == [meta |-> None, chunks |-> <<>>]

\* txRagDB as openTxDB creates it: four empty object stores
NoTxStore == [meta |-> None, tx_chunks |-> <<>>, sum_chunks |-> <<>>, raw |-> {}]

\* ChatPage before its first effect has run
NoPage ==
    [conversations |-> <<>>, currentConversationId |-> None, calls |-> <<>>,
     timers |-> 0, now |-> 0, hybridRef |-> FALSE, retrieverRef |-> FALSE,
     ragIndex |-> FALSE]

---------------------------------------------------------------------------
(* Bounds of the model *)

MaxChunks == 4      \* chunks in the single corpus
MaxTopK == 2        \* largest topK passed to VectorDB.search
MaxFilterDocs == 3  \* documents handed to applyFilter on its own
MaxKbChunks == 3    \* chunks in the Retriever's corpus
MaxTxDocs == 2      \* chunks in the transaction corpus
MaxSumDocs == 1     \* chunks in the summary corpus
MaxK == 2           \* largest k passed to HybridRetriever.search
MaxCalls == 3       \* searches made one after the other on one store
MaxPoolDocs == 3    \* documents of the pool handed to fuse
MaxMixedChunks == 2 \* chunks of an index of embeddings of mixed dimensions
MaxLocalsTxDocs == 3 \* transaction chunks of a retriever whose locals are kept

---------------------------------------------------------------------------
(* Fixed-point arithmetic *)

Scale == 5                  \* length of a unit vector
Unit == Scale * Scale       \* the cosine similarity 1.0

Max2(a, b) == IF a >= b THEN a ELSE b
Min2(a, b) == IF a <= b THEN a ELSE b

RECURSIVE SumSq(_)
SumSq(vec) == IF vec = <<>> THEN 0 ELSE Head(vec) * Head(vec) + SumSq(Tail(vec))

Abs(x) == IF x < 0 THEN 0 - x ELSE x

\* |x| / Math.sqrt(sum) as the Float32Array out stores it: the representable
\* value (a whole count of 1/Scale) nearest to the quotient
NearestQuotient(x, sum) ==
    CHOOSE r \in 0..Scale :
        /\ (2 * r - 1) * (2 * r - 1) * sum <= 4 * Unit * x * x \/ r = 0
        /\ 4 * Unit * x * x < (2 * r + 1) * (2 * r + 1) * sum

\* VectorDB.normalize: const n = Math.sqrt(sum) || 1; out[i] = vec[i] / n
normalize(vec) ==
    LET sum == SumSq(vec)
    IN  [i \in 1..Len(vec) |->
            IF sum = 0 THEN 0
            ELSE IF vec[i] < 0 THEN 0 - NearestQuotient(Abs(vec[i]), sum)
            ELSE NearestQuotient(vec[i], sum)]

RECURSIVE DotUpTo(_, _, _)
DotUpTo(a, b, len) ==
    IF len = 0 THEN 0 ELSE a[len] * b[len] + DotUpTo(a, b, len - 1)

\* VectorDB.cosine: the dot product over the shorter common length
cosine(a, b) == DotUpTo(a, b, Min2(Len(a), Len(b)))

---------------------------------------------------------------------------
(* VectorDB *)

\* constructor: every embedding is copied and normalized; ids, texts and
\* pages are copied in index order
NewVectorDB(chunks) ==
    [ ids   |-> [i \in 1..Len(chunks) |-> chunks[i].id],
      texts |-> [i \in 1..Len(chunks) |-> chunks[i].text],
      pages |-> [i \in 1..Len(chunks) |-> chunks[i].page],
      embs  |-> [i \in 1..Len(chunks) |-> normalize(chunks[i].embedding)] ]

\* scores[i] = VectorDB.cosine(qn, this.embs[i])
Scores(d, q) ==
    LET qn == normalize(q)
    IN  [i \in 1..Len(d.embs) |-> cosine(qn, d.embs[i])]

\* Array.prototype.sort((a, b) => key[b] - key[a]): stable, descending
RECURSIVE InsertDesc(_, _, _)
InsertDesc(sorted, x, key) ==
    IF sorted = <<>> THEN <<x>>
    ELSE IF key[Head(sorted)] >= key[x]
         THEN <<Head(sorted)>> \o InsertDesc(Tail(sorted), x, key)
         ELSE <<x>> \o sorted

RECURSIVE SortDescFrom(_, _, _)
SortDescFrom(sorted, rest, key) ==
    IF rest = <<>> THEN sorted
    ELSE SortDescFrom(InsertDesc(sorted, Head(rest), key), Tail(rest), key)

SortDesc(seq, key) == SortDescFrom(<<>>, seq, key)

\* Array.prototype.slice(0, n) for n >= 0
Take(seq, n) == SubSeq(seq, 1, Min2(n, Len(seq)))

InSeq(x, seq) == \E i \in 1..Len(seq) : seq[i] = x

\* scores[i] >= minScore, minScore counted in hundredths
PassesMinScore(score, minScore) == score * 100 >= minScore * Unit

\* candidates above minScore, in index order
Preselect(scores, minScore) ==
    SelectSeq([i \in 1..Len(scores) |-> i],
              LAMBDA i : PassesMinScore(scores[i], minScore))

\* a fallback that finds nothing
FallbackNothing(scores, topK) == <<>>

\* if none pass the threshold: the topK * 3 best by score
Fallback(scores, topK) ==
    Take(SortDesc([i \in 1..Len(scores) |-> i], scores), topK * 3)

Candidates(scores, topK, minScore) ==
    LET above == Preselect(scores, minScore)
    IN  IF Len(above) = 0 THEN Fallback(scores, topK) ELSE above

\* let diversity = 0; for (const j of selected) if (sim > diversity) diversity = sim
RECURSIVE Diversity(_, _, _)
Diversity(embs, i, selected) ==
    IF selected = <<>> THEN 0
    ELSE Max2(cosine(embs[i], embs[Head(selected)]),
              Diversity(embs, i, Tail(selected)))

\* the two weights exchanged
MmrSwapped(mmrLambda, relevance, diversity) ==
    (10 - mmrLambda) * relevance - mmrLambda * diversity

\* the diversity term left out
MmrRelevanceOnly(mmrLambda, relevance, diversity) == mmrLambda * relevance

\* mmr = mmrLambda * relevance - (1 - mmrLambda) * diversity, times 10
Mmr(mmrLambda, relevance, diversity) ==
    mmrLambda * relevance - (10 - mmrLambda) * diversity

\* the inner for loop with mmr >= bestScore: the last candidate of greatest
\* mmr wins
RECURSIVE BestFromLast(_, _, _, _, _, _, _, _)
BestFromLast(cands, pos, bestIdx, bestScore, selected, scores, embs, mmrLambda) ==
    IF pos > Len(cands) THEN bestIdx
    ELSE LET i == cands[pos]
             mmr == Mmr(mmrLambda, scores[i], Diversity(embs, i, selected))
         IN  IF InSeq(i, selected)
             THEN BestFromLast(cands, pos + 1, bestIdx, bestScore,
                               selected, scores, embs, mmrLambda)
             ELSE IF bestIdx = 0 \/ mmr >= bestScore
                  THEN BestFromLast(cands, pos + 1, i, mmr,
                                    selected, scores, embs, mmrLambda)
                  ELSE BestFromLast(cands, pos + 1, bestIdx, bestScore,
                                    selected, scores, embs, mmrLambda)

\* the inner for loop with bestScore starting at 0 rather than -Infinity: a
\* candidate whose mmr is not positive is never taken
RECURSIVE BestFromZero(_, _, _, _, _, _, _, _)
BestFromZero(cands, pos, bestIdx, bestScore, selected, scores, embs, mmrLambda) ==
    IF pos > Len(cands) THEN bestIdx
    ELSE LET i == cands[pos]
             mmr == Mmr(mmrLambda, scores[i], Diversity(embs, i, selected))
         IN  IF InSeq(i, selected)
             THEN BestFromZero(cands, pos + 1, bestIdx, bestScore,
                               selected, scores, embs, mmrLambda)
             ELSE IF mmr > bestScore
                  THEN BestFromZero(cands, pos + 1, i, mmr,
                                    selected, scores, embs, mmrLambda)
                  ELSE BestFromZero(cands, pos + 1, bestIdx, bestScore,
                                    selected, scores, embs, mmrLambda)

\* one pass of the inner for loop: bestIdx, the first candidate of greatest
\* mmr among those not yet selected (0 stands for the code's -1)
RECURSIVE BestFrom(_, _, _, _, _, _, _, _)
BestFrom(cands, pos, bestIdx, bestScore, selected, scores, embs, mmrLambda) ==
    IF pos > Len(cands) THEN bestIdx
    ELSE LET i == cands[pos]
             mmr == Mmr(mmrLambda, scores[i], Diversity(embs, i, selected))
         IN  IF InSeq(i, selected)
             THEN BestFrom(cands, pos + 1, bestIdx, bestScore,
                           selected, scores, embs, mmrLambda)
             ELSE IF bestIdx = 0 \/ mmr > bestScore
                  THEN BestFrom(cands, pos + 1, i, mmr,
                                selected, scores, embs, mmrLambda)
                  ELSE BestFrom(cands, pos + 1, bestIdx, bestScore,
                                selected, scores, embs, mmrLambda)

\* the while loop without its selected.length < topK bound
RECURSIVE MmrSelectAll(_, _, _, _, _, _)
MmrSelectAll(cands, selected, topK, scores, embs, mmrLambda) ==
    IF ~(Len(cands) > 0) THEN selected
    ELSE LET bestIdx == BestFrom(cands, 1, 0, 0, selected, scores, embs, mmrLambda)
         IN  IF bestIdx = 0 THEN selected
             ELSE MmrSelectAll(cands, Append(selected, bestIdx), topK,
                               scores, embs, mmrLambda)

\* while (selected.length < topK && candidates.length > 0) { ... }
RECURSIVE MmrSelect(_, _, _, _, _, _)
MmrSelect(cands, selected, topK, scores, embs, mmrLambda) ==
    IF ~(Len(selected) < topK /\ Len(cands) > 0) THEN selected
    ELSE LET bestIdx == BestFrom(cands, 1, 0, 0, selected, scores, embs, mmrLambda)
         IN  IF bestIdx = 0 THEN selected
             ELSE MmrSelect(cands, Append(selected, bestIdx), topK,
                            scores, embs, mmrLambda)

\* the order in which MMR selected the chunks
Selected(d, q, opts) ==
    LET scores == Scores(d, q)
    IN  MmrSelect(Candidates(scores, opts.topK, opts.minScore), <<>>,
                  opts.topK, scores, d.embs, opts.mmrLambda)

\* the items in the order of selection, the sort left out
ResultItemsInStepOrder(d, scores, selected) ==
    [n \in 1..Len(selected) |->
        [ id    |-> d.ids[selected[n]],
          text  |-> d.texts[selected[n]],
          score |-> scores[selected[n]],
          page  |-> d.pages[selected[n]] ]]

\* selected.sort((a, b) => scores[b] - scores[a]).map(i => ({...}))
ResultItems(d, scores, selected) ==
    LET sorted == SortDesc(selected, scores)
    IN  [n \in 1..Len(sorted) |->
            [ id    |-> d.ids[sorted[n]],
              text  |-> d.texts[sorted[n]],
              score |-> scores[sorted[n]],
              page  |-> d.pages[sorted[n]] ]]

\* a search that sorts the arrays of the store by score, as if the final
\* sort were applied to them in place
StoreSortedInPlace(d, q, opts) ==
    LET order == SortDesc([i \in 1..Len(d.ids) |-> i], Scores(d, q))
    IN  [ ids   |-> [n \in 1..Len(order) |-> d.ids[order[n]]],
          texts |-> [n \in 1..Len(order) |-> d.texts[order[n]]],
          pages |-> [n \in 1..Len(order) |-> d.pages[order[n]]],
          embs  |-> [n \in 1..Len(order) |-> d.embs[order[n]]] ]

\* the store after search: search assigns to locals only (scores,
\* candidates, selected, selectedSet) and sorts the local array selected
StoreAfterSearch(d, q, opts) == d

\* VectorDB.search(queryEmbedding, {topK, minScore, mmrLambda})
search(d, q, opts) == ResultItems(d, Scores(d, q), Selected(d, q, opts))

---------------------------------------------------------------------------
(* HybridRetriever: metadata filter *)

\* JavaScript truthiness of an optional number / an optional string
TruthyNum(o) == o # None /\ o # Some(0)
TruthyStr(o) == o # None /\ o # Some("")

FilterFields == {"year", "month", "category", "merchant", "currency"}

\* the metadata field each filter field is compared with
MetaField(field) == IF field = "category" THEN "category_lvl1" ELSE field

NoMetadata ==
    [year |-> None, month |-> None, category_lvl1 |-> None,
     merchant |-> None, currency |-> None]

\* const m = d.metadata || {}
MetadataOf(d) == IF d.metadata = None THEN NoMetadata ELSE The(d.metadata)

\* the predicate of docs.filter(d => ...) in applyFilter
PassesFilter(d, f) ==
    LET m == MetadataOf(d)
    IN  /\ ~(TruthyNum(f.year) /\ m.year # f.year)
        /\ ~(TruthyNum(f.month) /\ m.month # f.month)
        /\ ~(TruthyStr(f.category) /\ TruthyStr(m.category_lvl1)
                /\ m.category_lvl1 # f.category)
        /\ ~(TruthyStr(f.merchant) /\ TruthyStr(m.merchant)
                /\ m.merchant # f.merchant)
        /\ ~(TruthyStr(f.currency) /\ TruthyStr(m.currency)
                /\ m.currency # f.currency)

\* a metadata object / a filter object of the given optional fields
Meta(y, m, c, me, cu) ==
    Some([year |-> y, month |-> m, category_lvl1 |-> c, merchant |-> me,
          currency |-> cu])

Filter(y, m, c, me, cu) ==
    Some([year |-> y, month |-> m, category |-> c, merchant |-> me,
          currency |-> cu])

\* HybridRetriever.applyFilter(docs, f): f is None when no filter is passed
applyFilter(docs, f) ==
    IF f = None THEN docs
    ELSE SelectSeq(docs, LAMBDA d : PassesFilter(d, The(f)))

---------------------------------------------------------------------------
(* Lexical scorer.  A string is a sequence of one-character strings.       *)

LowerCase(c) ==
    CASE c = "A" -> "a" [] c = "B" -> "b" [] c = "C" -> "c" [] OTHER -> c

\* the characters /[a-z0-9_\s]/ of the model's alphabet (a Cyrillic letter
\* is matched by the class as a Latin one is)
IsTokenChar(c) == c \in {"a", "b", "c", "0", "1", "_"}

\* one pass over the characters: cur is the token being read, acc the
\* tokens read; a character outside the class ends a token as a blank does
RECURSIVE SplitTokens(_, _, _)
SplitTokens(chars, cur, acc) ==
    IF chars = <<>>
    THEN IF cur = <<>> THEN acc ELSE Append(acc, cur)
    ELSE LET c == LowerCase(Head(chars))
         IN  IF IsTokenChar(c)
             THEN SplitTokens(Tail(chars), Append(cur, c), acc)
             ELSE SplitTokens(Tail(chars), <<>>,
                              IF cur = <<>> THEN acc ELSE Append(acc, cur))

\* tokenize(s): lower case, other characters to blanks, split on blanks
tokenize(s) == SplitTokens(s, <<>>, <<>>)

\* occurrences of token t in a token list
RECURSIVE Count(_, _)
Count(t, toks) ==
    IF toks = <<>> THEN 0
    ELSE (IF Head(toks) = t THEN 1 ELSE 0) + Count(t, Tail(toks))

\* avgdl * N: the tokens of all documents
RECURSIVE TotalLength(_)
TotalLength(docs) ==
    IF docs = <<>> THEN 0
    ELSE Len(tokenize(Head(docs).text)) + TotalLength(Tail(docs))

\* df.get(t): the documents that hold token t
DocFreq(t, docs) ==
    Cardinality({i \in 1..Len(docs) : InSeq(t, tokenize(docs[i].text))})

\* Math.log(1 + (N - df + 0.5) / (df + 0.5)) in thousandths, rounded, for
\* 1 <= df <= N <= 7
IdfTable ==
    << <<288>>,
       <<693, 182>>,
       <<981, 470, 134>>,
       <<1204, 693, 357, 105>>,
       <<1386, 875, 539, 288, 87>>,
       <<1540, 1030, 693, 442, 241, 74>>,
       <<1674, 1163, 827, 575, 375, 208, 65>> >>

Idf(N, df) == IdfTable[N][df]

\* idf * (f * (k1 + 1)) / (f + k1 * (1 - b + b * dl / avgdl)) in
\* thousandths, with k1 = 1.2, b = 0.75 and avgdl = total / N: the fraction
\* is 22 f total / (10 f total + 3 total + 9 dl N)
TermScore(N, df, f, dl, total) ==
    (Idf(N, df) * 22 * f * total) \div (10 * f * total + 3 * total + 9 * dl * N)

\* the sum over the query's tokens q (a term absent from every document is
\* skipped: `if (!m) continue`)
RECURSIVE SumTerms(_, _, _)
SumTerms(qtokens, d, docs) ==
    IF qtokens = <<>> THEN 0
    ELSE LET q == Head(qtokens)
             df == DocFreq(q, docs)
             dtoks == tokenize(d.text)
             N == IF Len(docs) = 0 THEN 1 ELSE Len(docs)
         IN  (IF df = 0 THEN 0
              ELSE TermScore(N, df, Count(q, dtoks), Len(dtoks), TotalLength(docs)))
             + SumTerms(Tail(qtokens), d, docs)

\* bm25Score(query, docs): the Map as the sequence of its entries
\* <<id, score>> in insertion order; `if (s) scores.set(d.id, s)`
bm25Score(query, docs) ==
    LET tokens == tokenize(query)
        s == [i \in 1..Len(docs) |-> SumTerms(tokens, docs[i], docs)]
        kept == SelectSeq([i \in 1..Len(docs) |-> i], LAMBDA i : s[i] # 0)
    IN  IF Len(tokens) = 0 THEN <<>>
        ELSE [n \in 1..Len(kept) |-> <<docs[kept[n]].id, s[kept[n]]>>]

---------------------------------------------------------------------------
(* HybridRetriever: load, embed, fusion, search *)

\* a HybridRetriever as constructed: no store, no documents
NewHybrid == [txDb |-> None, sumDb |-> None, txDocs |-> <<>>, sumDocs |-> <<>>]

\* chunks.map(c => ({ id: c.id, text: c.text, metadata: c.metadata }))
RawDocs(chunks) ==
    [i \in 1..Len(chunks) |->
        [id |-> chunks[i].id, text |-> chunks[i].text,
         metadata |-> chunks[i].metadata]]

\* HybridRetriever.load once both index files have been fetched and parsed
LoadedHybrid(txChunks, sumChunks) ==
    [txDb |-> Some(NewVectorDB(txChunks)), sumDb |-> Some(NewVectorDB(sumChunks)),
     txDocs |-> RawDocs(txChunks), sumDocs |-> RawDocs(sumChunks)]

\* What an embedding request can come to.  embed(): a rejected fetch or an
\* unparsable body is caught, a non-success status and a body without a
\* vector give null; the result is the optional vector, and whether an
\* exception left embed.
EmbedFailures == {"transport error", "http status", "no vector"}

\* embed without its try/catch: a rejected fetch leaves embed as an exception
embedNoCatch(response) ==
    IF response.kind = "ok"
    THEN [threw |-> FALSE, value |-> Some(response.embedding)]
    ELSE [threw |-> response.kind = "transport error", value |-> None]

embed(response) ==
    IF response.kind = "ok"
    THEN [threw |-> FALSE, value |-> Some(response.embedding)]
    ELSE [threw |-> FALSE, value |-> None]

\* pool.find(p => p.id === id) as a test
HasId(pool, id) == \E i \in 1..Len(pool) : pool[i].id = id

\* the dense results kept whole
RestrictToNothing(dense, pool) == dense

\* dense.filter(d => pool.find(p => p.id === d.id))
RestrictToPool(dense, pool) == SelectSeq(dense, LAMBDA d : HasId(pool, d.id))

RECURSIVE MaxOf(_, _)
MaxOf(seq, floor) ==
    IF seq = <<>> THEN floor ELSE Max2(Head(seq), MaxOf(Tail(seq), floor))

\* w/10 * (x / Math.max(...values, 1e-6)) in thousandths, for x and values
\* in one unit of which `one` make 1.0: when no value is positive the
\* divisor is the epsilon 1e-6
Weighted(w, x, values, one) ==
    LET mx == MaxOf(values, 0)
    IN  IF mx > 0 THEN (w * 100 * x) \div mx
        ELSE ((w * 100 * x) \div one) * 1000000

\* bm.get(id) || 0
BmGet(bm, id) ==
    IF \E n \in 1..Len(bm) : bm[n][1] = id
    THEN (CHOOSE e \in {bm[n] : n \in 1..Len(bm)} : e[1] = id)[2]
    ELSE 0

BmValues(bm) == [n \in 1..Len(bm) |-> bm[n][2]]

\* the lexical term taken off the dense term
FusedDenseMinus(it, items, bm) ==
    Weighted(6, it.score, [n \in 1..Len(items) |-> items[n].score], Unit)
    - Weighted(4, BmGet(bm, it.id), BmValues(bm), 1000)

\* fused score of a dense item, in thousandths:
\* 0.6 * (it.score / denseMax) + 0.4 * (bmScore / bmMax)
FusedDense(it, items, bm) ==
    Weighted(6, it.score, [n \in 1..Len(items) |-> items[n].score], Unit)
    + Weighted(4, BmGet(bm, it.id), BmValues(bm), 1000)

\* fused score of a BM25-only item: 0.4 * (bms / bmMax)
FusedLexical(bms, bm) == Weighted(4, bms, BmValues(bm), 1000)

\* the text of the pool document of that id (pool.find(...).text)
TextOf(pool, id) == (CHOOSE d \in {pool[i] : i \in 1..Len(pool)} : d.id = id).text

\* fuse without its set of seen ids: the top BM25 entries are added whether
\* or not the dense loop has them
fuseNoSeen(items, bm, source, pool, k) ==
    LET dense == [n \in 1..Len(items) |->
                    [id |-> items[n].id, text |-> items[n].text,
                     score |-> FusedDense(items[n], items, bm), source |-> source]]
        order == SortDesc([n \in 1..Len(bm) |-> n], BmValues(bm))
        bmOnly == Take([n \in 1..Len(order) |-> bm[order[n]]], k)
        added == SelectSeq(bmOnly, LAMBDA e : HasId(pool, e[1]))
    IN  dense \o [n \in 1..Len(added) |->
                    [id |-> added[n][1], text |-> TextOf(pool, added[n][1]),
                     score |-> FusedLexical(added[n][2], bm), source |-> source]]

\* fuse(items, bm, source), with the pool and k of the enclosing search
fuse(items, bm, source, pool, k) ==
    LET dense == [n \in 1..Len(items) |->
                    [id |-> items[n].id, text |-> items[n].text,
                     score |-> FusedDense(items[n], items, bm), source |-> source]]
        order == SortDesc([n \in 1..Len(bm) |-> n], BmValues(bm))
        bmOnly == Take([n \in 1..Len(order) |-> bm[order[n]]], k)
        added == SelectSeq(bmOnly,
                    LAMBDA e : ~HasId(items, e[1]) /\ HasId(pool, e[1]))
    IN  dense \o [n \in 1..Len(added) |->
                    [id |-> added[n][1], text |-> TextOf(pool, added[n][1]),
                     score |-> FusedLexical(added[n][2], bm), source |-> source]]

\* the two lists concatenated and cut to k, the sort left out
MergeUnsorted(fusedTx, fusedSum, k) == Take(fusedTx \o fusedSum, k)

\* const all = [...fusedTx, ...fusedSum].sort((a,b)=>b.score-a.score).slice(0, k)
MergeTopK(fusedTx, fusedSum, k) ==
    LET all == fusedTx \o fusedSum
        order == SortDesc([n \in 1..Len(all) |-> n], [n \in 1..Len(all) |-> all[n].score])
    IN  Take([n \in 1..Len(order) |-> all[order[n]]], k)

\* the options of the two dense searches
DenseOpts(k) == [topK |-> Min2(k, 6), minScore |-> 20, mmrLambda |-> 6]

\* HybridRetriever.search after the embedding has arrived (lines 107-151)
\* a search that keeps the filtered pools in place of the document lists
HybridFilteredInPlace(h, filter) ==
    [h EXCEPT !.txDocs = applyFilter(h.txDocs, filter),
              !.sumDocs = applyFilter(h.sumDocs, filter)]

\* the retriever after search: applyFilter, Array.prototype.filter, Array.from
\* and the spread build new arrays, the sorts work on those
HybridAfterSearch(h, filter) == h

\* a retriever that takes itself for loaded
LoadedRegardless(h) == TRUE

\* the negation of: if (!this.txDb || !this.sumDb) return [];
Loaded(h) == h.txDb # None /\ h.sumDb # None

HybridResult(h, query, qEmb, filter, k) ==
    LET txPool == applyFilter(h.txDocs, filter)
        sumPool == applyFilter(h.sumDocs, filter)
        txDense == search(The(h.txDb), qEmb, DenseOpts(k))
        sumDense == search(The(h.sumDb), qEmb, DenseOpts(k))
        txDenseFiltered == RestrictToPool(txDense, txPool)
        sumDenseFiltered == RestrictToPool(sumDense, sumPool)
        txBm25 == bm25Score(query, txPool)
        sumBm25 == bm25Score(query, sumPool)
        fusedTx == fuse(txDenseFiltered, txBm25, "transaction", txPool, k)
        fusedSum == fuse(sumDenseFiltered, sumBm25, "summary", sumPool, k)
    IN  MergeTopK(fusedTx, fusedSum, k)

---------------------------------------------------------------------------
(* Retriever: context assembly.  Cyrillic letters of the header are written *)
(* as Latin letters, one for one, so that lengths are the code's.           *)

DigitChars == <<"0", "1", "2", "3", "4", "5", "6", "7", "8", "9">>

\* String(n) for an integer n >= 0
RECURSIVE Digits(_)
Digits(n) ==
    IF n < 10 THEN <<DigitChars[n + 1]>>
    ELSE Append(Digits(n \div 10), DigitChars[(n % 10) + 1])

\* score.toFixed(3) for a score of whole thousandths
ToFixed3(score) ==
    LET t == ((IF score < 0 THEN -score ELSE score) * 1000) \div Unit
    IN  (IF score < 0 THEN <<"-">> ELSE <<>>)
        \o Digits(t \div 1000) \o <<".">>
        \o <<DigitChars[((t \div 100) % 10) + 1],
             DigitChars[((t \div 10) % 10) + 1],
             DigitChars[(t % 10) + 1]>>

\* `Istocnik ${i + 1}${r.page ? ` (str. ${r.page})` : ''} - score ${...}`,
\* n being i + 1
Header(n, r) ==
    <<"I", "s", "t", "o", "c", "n", "i", "k", " ">> \o Digits(n)
    \o (IF TruthyNum(r.page)
        THEN <<" ", "(", "s", "t", "r", ".", " ">> \o Digits(The(r.page)) \o <<")">>
        ELSE <<>>)
    \o <<" ", "-", " ", "s", "c", "o", "r", "e", " ">> \o ToFixed3(r.score)

\* const block = `${header}\n${r.text}`
Block(n, r) == Header(n, r) \o <<"\n">> \o r.text

\* the loop going on to the next result where the code breaks
RECURSIVE AssembleSkipping(_, _, _, _, _)
AssembleSkipping(results, i, lines, used, maxContextChars) ==
    IF i > Len(results) THEN lines
    ELSE LET block == Block(i, results[i])
         IN  IF used + Len(block) > maxContextChars
             THEN AssembleSkipping(results, i + 1, lines, used, maxContextChars)
             ELSE AssembleSkipping(results, i + 1, Append(lines, block),
                                   used + Len(block), maxContextChars)

\* the for loop of retrieve from result i on: lines, and used so far
RECURSIVE Assemble(_, _, _, _, _)
Assemble(results, i, lines, used, maxContextChars) ==
    IF i > Len(results) THEN lines
    ELSE LET block == Block(i, results[i])
         IN  IF used + Len(block) > maxContextChars THEN lines
             ELSE Assemble(results, i + 1, Append(lines, block),
                           used + Len(block), maxContextChars)

\* lines.join(sep)
RECURSIVE Join(_, _)
Join(lines, sep) ==
    IF lines = <<>> THEN <<>>
    ELSE IF Len(lines) = 1 THEN lines[1]
    ELSE lines[1] \o sep \o Join(Tail(lines), sep)

\* the blocks retrieve puts into the context
ContextLines(results, maxContextChars) ==
    Assemble(results, 1, <<>>, 0, maxContextChars)

\* Retriever.retrieve after the embedding has arrived (lines 79-94)
RetrieveResult(d, qEmb, opts) ==
    LET results == search(d, qEmb,
                     [topK |-> opts.topK, minScore |-> opts.minScore,
                      mmrLambda |-> opts.mmrLambda])
    IN  [context |-> Join(ContextLines(results, opts.maxContextChars),
                          <<"\n", "\n">>),
         chunks |-> results]

---------------------------------------------------------------------------
(* Inputs of the model *)

\* raw embeddings as an index file may hold them: lengths 5, 10 and 0
RawVecs == { <<4, 3>>, <<6, 8>>, <<5, 0>>, <<-3, 4>>, <<-4, -3>>, <<0, 0>> }

\* query embeddings as the embedding service may return them
QueryVecs == { <<8, 6>>, <<0, 5>> }

\* chunk texts, as sequences of characters, by position in the index
TextAt(i) ==
    CASE i % 3 = 1 -> <<"a", " ", "B", "!">>
      [] i % 3 = 2 -> <<"b", "_", "a", " ", "b", " ", "a">>
      [] OTHER     -> <<"A">>

\* page numbers by position: absent on every second chunk
PageAt(i) == IF i % 2 = 1 THEN Some(i) ELSE None

\* the index file holding the embeddings e: chunk i has id i
IndexOf(e) ==
    [i \in 1..Len(e) |-> [id |-> i, text |-> TextAt(i), page |-> PageAt(i),
                          embedding |-> e[i]]]

\* the index files of the single corpus
Indexes == { IndexOf(e) : e \in UNION { [1..n -> RawVecs] : n \in 0..MaxChunks } }

\* minScore in hundredths: HybridRetriever's 0.2 and a strict 0.9
MinScores == { 20, 90 }

\* mmrLambda in tenths: the boundaries 0 and 1, 0.3, the callers' 0.6
Lambdas == { 0, 3, 6, 10 }

SearchOpts == [topK : 0..MaxTopK, minScore : MinScores, mmrLambda : Lambdas]

\* the index files of the Retriever's corpus
KbVecs == { <<4, 3>>, <<6, 8>>, <<-4, -3>> }

KbIndexes == { IndexOf(e) : e \in UNION { [1..n -> KbVecs] : n \in 0..MaxKbChunks } }

\* options of Retriever.retrieve: maxContextChars around the lengths of one
\* and of two blocks of the model's texts
RetrieveOpts ==
    [topK : {1, MaxKbChunks}, minScore : {20}, mmrLambda : {6},
     maxContextChars : {0, 40, 70, 110}]

\* the chunks of the two hybrid corpora: an embedding, a text, metadata
HybridKinds ==
    { [embedding |-> <<4, 3>>, text |-> <<"a", " ", "b">>,
       metadata |-> Meta(Some(2024), Some(1), None, None, None)],
      [embedding |-> <<6, 8>>, text |-> <<"B", "!", "a", " ", "a">>,
       metadata |-> Meta(Some(2024), Some(2), Some("groceries"),
                         Some("magnum"), Some("KZT"))],
      [embedding |-> <<-4, -3>>, text |-> <<"b">>, metadata |-> None] }

\* an index file of a hybrid corpus: chunk i has id i (ids are unique
\* within a corpus, not across the two)
HybridIndexOf(ks) ==
    [i \in 1..Len(ks) |->
        [id |-> i, text |-> ks[i].text, page |-> None,
         embedding |-> ks[i].embedding, metadata |-> ks[i].metadata]]

HybridIndexes(maxDocs) ==
    { HybridIndexOf(ks) : ks \in UNION { [1..n -> HybridKinds] : n \in 0..maxDocs } }

\* a user query with the vector the embedding service holds for it
Queries ==
    { [text |-> <<"a">>, embedding |-> <<8, 6>>],
      [text |-> <<"B", " ", "a">>, embedding |-> <<0, 5>>],
      [text |-> <<"c", "!">>, embedding |-> <<8, 6>>] }

HybridFilters ==
    { None,
      Filter(None, Some(1), None, None, None),
      Filter(None, None, Some("food_out"), None, None) }

\* what the embedding service can answer to a request for query q
Responses(q) ==
    {[kind |-> "ok", embedding |-> q.embedding]}
    \cup {[kind |-> f, embedding |-> <<>>] : f \in EmbedFailures}

\* the index files the application is deployed with: every Retriever corpus
\* beside one pair of hybrid corpora, every pair of hybrid corpora beside
\* one Retriever corpus
Deployments ==
    { [kb |-> i, tx |-> HybridIndexOf(<<>>), sum |-> HybridIndexOf(<<>>)] :
        i \in KbIndexes }
    \cup { [kb |-> IndexOf(<< <<4, 3>> >>), tx |-> t, sum |-> u] :
             t \in HybridIndexes(MaxTxDocs), u \in HybridIndexes(MaxSumDocs) }

---------------------------------------------------------------------------
(* The retrievers as the chat page uses them *)

Init ==
    /\ index \in Deployments
    /\ db = None
    /\ hybrid = NewHybrid
    /\ pc = "idle"
    /\ req = [op |-> "none"]
    /\ embedCalls = 0
    /\ resp = None
    /\ picked = <<>>
    /\ ret = None
    /\ threw = FALSE
    /\ trace = <<>>
    /\ idb = NoStore
    /\ txRagDB = NoTxStore
    /\ page = NoPage

\* Retriever.loadIndex(url): a failed fetch throws, else the store is built
LoadIndex(ok) ==
    /\ pc = "idle"
    /\ db = None
    /\ req' = [op |-> "loadIndex"]
    /\ db' = IF ok THEN Some(NewVectorDB(index.kb)) ELSE db
    /\ threw' = ~ok
    /\ ret' = None
    /\ embedCalls' = 0
    /\ UNCHANGED <<index, hybrid, pc, resp, picked>>
    /\ UNCHANGED <<trace, idb, txRagDB, page>>

\* HybridRetriever.load(txUrl, sumUrl)
HybridLoad(ok) ==
    /\ pc = "idle"
    /\ hybrid.txDb = None
    /\ req' = [op |-> "load"]
    /\ hybrid' = IF ok THEN LoadedHybrid(index.tx, index.sum) ELSE hybrid
    /\ threw' = ~ok
    /\ ret' = None
    /\ embedCalls' = 0
    /\ UNCHANGED <<index, db, pc, resp, picked>>
    /\ UNCHANGED <<trace, idb, txRagDB, page>>

\* Retriever.retrieve(query, options) up to its await of embed
Retrieve(query, opts) ==
    /\ pc = "idle"
    /\ req' = [op |-> "retrieve", query |-> query, opts |-> opts]
    /\ threw' = FALSE
    /\ ret' = None
    /\ IF db = None
       THEN pc' = "done" /\ embedCalls' = 0
       ELSE pc' = "embedding" /\ embedCalls' = 1
    /\ resp' = None
    /\ UNCHANGED <<index, db, hybrid, picked>>
    /\ UNCHANGED <<trace, idb, txRagDB, page>>

\* Retriever.retrieve from the answer of the embedding service on
RetrieveResume ==
    /\ pc = "embedding"
    /\ req.op = "retrieve"
    /\ \E response \in Responses(req.query) :
       LET qEmb == embed(response)
       IN  /\ resp' = Some(response)
           /\ threw' = qEmb.threw
           /\ ret' = IF qEmb.threw \/ qEmb.value = None THEN None
                     ELSE Some(RetrieveResult(The(db), The(qEmb.value), req.opts))
           /\ picked' = IF qEmb.threw \/ qEmb.value = None THEN picked
                        ELSE Selected(The(db), The(qEmb.value), req.opts)
    /\ pc' = "done"
    /\ UNCHANGED <<index, db, hybrid, req, embedCalls>>
    /\ UNCHANGED <<trace, idb, txRagDB, page>>

\* HybridRetriever.search(query, filter, k) up to its await of embed
HybridSearch(query, filter, k) ==
    /\ pc = "idle"
    /\ req' = [op |-> "search", query |-> query, filter |-> filter, k |-> k]
    /\ threw' = FALSE
    /\ IF ~Loaded(hybrid)
       THEN pc' = "done" /\ embedCalls' = 0 /\ ret' = Some(<<>>)
       ELSE pc' = "embedding" /\ embedCalls' = 1 /\ ret' = None
    /\ resp' = None
    /\ UNCHANGED <<index, db, hybrid, picked>>
    /\ UNCHANGED <<trace, idb, txRagDB, page>>

\* HybridRetriever.search from the answer of the embedding service on
SearchResume ==
    /\ pc = "embedding"
    /\ req.op = "search"
    /\ \E response \in Responses(req.query) :
       LET qEmb == embed(response)
       IN  /\ resp' = Some(response)
           /\ threw' = qEmb.threw
           /\ ret' = IF qEmb.threw THEN None
                     ELSE IF qEmb.value = None THEN Some(<<>>)
                     ELSE Some(HybridResult(hybrid, req.query.text,
                                            The(qEmb.value), req.filter, req.k))
    /\ pc' = "done"
    /\ UNCHANGED <<index, db, hybrid, req, embedCalls, picked>>
    /\ UNCHANGED <<trace, idb, txRagDB, page>>

Next ==
    \/ \E ok \in BOOLEAN : LoadIndex(ok)
    \/ \E ok \in BOOLEAN : HybridLoad(ok)
    \/ \E q \in Queries, o \in RetrieveOpts : Retrieve(q, o)
    \/ RetrieveResume
    \/ \E q \in Queries, f \in HybridFilters, k \in 0..MaxK : HybridSearch(q, f, k)
    \/ SearchResume

Spec == Init /\ [][Next]_vars

---------------------------------------------------------------------------
(* Properties of Retriever.retrieve and HybridRetriever.search *)

Returned(op) == pc = "done" /\ req.op = op

EmbeddingFailed == resp # None /\ The(resp).kind # "ok"
EmbeddingArrived == resp # None /\ The(resp).kind = "ok"

\* the first n results as whole blocks, joined by blank lines
WholeBlocks(results, n) ==
    Join([i \in 1..n |-> Block(i, results[i])], <<"\n", "\n">>)

\* C3: the context returned by retrieve, blocks and separators together, is
\* at most maxContextChars long and is made of whole blocks.  (Violated:
\* the loop counts the blocks' lengths and not the separators join adds.)
C3_ContextWithinMax ==
    (Returned("retrieve") /\ ret # None)
        => /\ Len(The(ret).context) <= req.opts.maxContextChars
           /\ \E n \in 0..Len(The(ret).chunks) :
                 The(ret).context = WholeBlocks(The(ret).chunks, n)

\* C7: when the embedding request fails, HybridRetriever.search returns the
\* empty list and Retriever.retrieve returns null, no exception reaches the
\* caller, and the one request of the call is not repeated.
C7_EmbeddingFailureFailsClosed ==
    /\ embedCalls <= 1
    /\ EmbeddingFailed =>
          /\ pc = "done"
          /\ embedCalls = 1
          /\ ~threw
          /\ req.op = "search" => ret = Some(<<>>)
          /\ req.op = "retrieve" => ret = None

C7_Witness ==
    /\ Returned("search")
    /\ hybrid.txDb # None
    /\ Len(hybrid.txDocs) > 0
    /\ EmbeddingFailed
    /\ The(resp).kind = "transport error"

\* the documents of the corpus a result item is tagged with
CorpusOf(source) ==
    IF source = "transaction" THEN hybrid.txDocs ELSE hybrid.sumDocs

\* item is document d of the list docs
IsDocOf(item, docs) ==
    \E i \in 1..Len(docs) : docs[i].id = item.id /\ docs[i].text = item.text

\* C9: every item HybridRetriever.search returns is a document of its
\* corpus that passed the metadata filter; a dense hit that did not pass
\* is not returned.
C9_ResultsPassFilter ==
    Returned("search") =>
        \A n \in 1..Len(The(ret)) :
            IsDocOf(The(ret)[n], applyFilter(CorpusOf(The(ret)[n].source), req.filter))

\* a search in which a dense hit of the transaction corpus was outside the
\* filtered pool while other items were returned
C9_Witness ==
    /\ Returned("search")
    /\ EmbeddingArrived
    /\ Len(The(ret)) > 0
    /\ \E d \in { search(The(hybrid.txDb), The(resp).embedding, DenseOpts(req.k))[n] :
                    n \in 1..Len(search(The(hybrid.txDb), The(resp).embedding,
                                        DenseOpts(req.k))) } :
          ~HasId(applyFilter(hybrid.txDocs, req.filter), d.id)

\* C10: HybridRetriever.search returns at most k items, in non-increasing
\* order of fused score across both corpora, each tagged with the corpus
\* it came from.
C10_AtMostKSortedTagged ==
    Returned("search") =>
        /\ Len(The(ret)) <= req.k
        /\ \A i, j \in 1..Len(The(ret)) :
              i < j => The(ret)[i].score >= The(ret)[j].score
        /\ \A n \in 1..Len(The(ret)) :
              /\ The(ret)[n].source \in {"transaction", "summary"}
              /\ IsDocOf(The(ret)[n], CorpusOf(The(ret)[n].source))

\* k items of both corpora returned, the summary one ranked first
C10_Witness ==
    /\ Returned("search")
    /\ req.k = MaxK
    /\ Len(The(ret)) = req.k
    /\ Len(hybrid.txDocs) + Len(hybrid.sumDocs) > req.k
    /\ The(ret)[1].source = "summary"
    /\ \E n \in 2..Len(The(ret)) :
          /\ The(ret)[n].source = "transaction"
          /\ The(ret)[n].score < The(ret)[1].score

\* the tokens of a list of documents
TokensOf(docs) ==
    UNION { { tokenize(docs[i].text)[n] : n \in 1..Len(tokenize(docs[i].text)) } :
            i \in 1..Len(docs) }

\* the filtered pool of a corpus and the dense list restricted to it, as
\* the search at hand computed them
PoolOf(source) == applyFilter(CorpusOf(source), req.filter)

StoreOf(source) ==
    IF source = "transaction" THEN The(hybrid.txDb) ELSE The(hybrid.sumDb)

DenseOf(source) ==
    RestrictToPool(search(StoreOf(source), The(resp).embedding, DenseOpts(req.k)),
                   PoolOf(source))

\* the query of the search at hand shares no token with the pool
NoSharedToken(source) ==
    { tokenize(req.query.text)[n] : n \in 1..Len(tokenize(req.query.text)) }
        \cap TokensOf(PoolOf(source)) = {}

\* the greatest dense score of a non-empty dense list
DenseMax(dense) ==
    CHOOSE mx \in { dense[n].score : n \in 1..Len(dense) } :
        \A n \in 1..Len(dense) : dense[n].score <= mx

\* item is the dense item d with the dense term alone as its score:
\* 0.6 * (d.score / DenseMax), in thousandths
DenseTermAlone(item, d, dense) ==
    /\ item.id = d.id
    /\ DenseMax(dense) # 0
    /\ item.score = (600 * d.score) \div DenseMax(dense)

\* C16: if the query shares no token with any document of the filtered
\* pool, bm25Score returns the empty map, every returned item of that
\* corpus is a dense item scored 0.6 * (dense score / greatest dense score
\* of the corpus's list), and no lexical-only item is added.  (Violated:
\* the divisor is Math.max(greatest dense score, 1e-6), which is 1e-6 when
\* no dense score is positive.)
C16_NoTokenDenseOnly ==
    (Returned("search") /\ EmbeddingArrived) =>
        \A source \in {"transaction", "summary"} :
            NoSharedToken(source) =>
                /\ bm25Score(req.query.text, PoolOf(source)) = <<>>
                /\ \A n \in 1..Len(The(ret)) :
                      The(ret)[n].source = source =>
                          \E m \in 1..Len(DenseOf(source)) :
                              DenseTermAlone(The(ret)[n], DenseOf(source)[m],
                                             DenseOf(source))

---------------------------------------------------------------------------
(* VectorDB.search called on a store built from an index file *)

InitVdb ==
    /\ index \in {[kb |-> i, tx |-> <<>>, sum |-> <<>>] : i \in Indexes}
    /\ db = Some(NewVectorDB(index.kb))
    /\ hybrid = NewHybrid
    /\ pc = "idle"
    /\ req = [op |-> "none"]
    /\ embedCalls = 0
    /\ resp = None
    /\ picked = <<>>
    /\ ret = None
    /\ threw = FALSE
    /\ trace = <<>>
    /\ idb = NoStore
    /\ txRagDB = NoTxStore
    /\ page = NoPage

VdbSearch(q, opts) ==
    /\ pc = "idle"
    /\ req' = [op |-> "VectorDB.search", q |-> q, opts |-> opts]
    /\ picked' = Selected(The(db), q, opts)
    /\ ret' = Some(search(The(db), q, opts))
    /\ pc' = "done"
    /\ UNCHANGED <<index, db, hybrid, embedCalls, resp, threw>>
    /\ UNCHANGED <<trace, idb, txRagDB, page>>

NextVdb ==
    \/ \E q \in QueryVecs, opts \in SearchOpts : VdbSearch(q, opts)
    \/ \E q \in Queries, f \in HybridFilters, k \in 0..MaxK : HybridSearch(q, f, k)

SpecVdb == InitVdb /\ [][NextVdb]_vars

---------------------------------------------------------------------------
(* Properties of VectorDB.search *)

Searched == pc = "done" /\ req.op = "VectorDB.search"

\* what the search at hand computed on its way
SearchScores == Scores(The(db), req.q)
SearchCandidates == Candidates(SearchScores, req.opts.topK, req.opts.minScore)
ThresholdPath == Len(Preselect(SearchScores, req.opts.minScore)) > 0

\* chunk i is a candidate of highest similarity to the query
HighestCandidate(i) ==
    /\ InSeq(i, SearchCandidates)
    /\ \A n \in 1..Len(SearchCandidates) :
          SearchScores[i] >= SearchScores[SearchCandidates[n]]

PureDiversity == Searched /\ req.opts.mmrLambda = 0 /\ req.opts.topK >= 1
                    /\ Len(index.kb) > 0

\* C4 as stated: with mmrLambda = 0 and topK >= 1 the first chunk picked is
\* a candidate of highest similarity to the query, on either candidate
\* path, and it is part of the result.  (Violated on the threshold path:
\* every mmr value of the first round is 0, so the first candidate in index
\* order is picked.)
C4_FirstPickHighest ==
    PureDiversity =>
        /\ HighestCandidate(picked[1])
        /\ \E n \in 1..Len(The(ret)) : The(ret)[n].id = The(db).ids[picked[1]]

\* C4 amended: with mmrLambda = 0 and topK >= 1 the first chunk picked is
\* the first candidate in candidate order and is part of the result; that
\* is a highest-similarity candidate on the fallback path, and the
\* lowest-index chunk reaching minScore on the threshold path.
C4_FirstPickFirstCandidate ==
    PureDiversity =>
        /\ picked[1] = SearchCandidates[1]
        /\ \E n \in 1..Len(The(ret)) : The(ret)[n].id = The(db).ids[picked[1]]
        /\ ~ThresholdPath => HighestCandidate(picked[1])
        /\ ThresholdPath =>
              /\ PassesMinScore(SearchScores[picked[1]], req.opts.minScore)
              /\ \A i \in 1..(picked[1] - 1) :
                    ~PassesMinScore(SearchScores[i], req.opts.minScore)

\* a threshold-path search whose first pick is not of highest similarity
C4_Witness ==
    /\ PureDiversity
    /\ ThresholdPath
    /\ ~HighestCandidate(picked[1])

\* the items of the chunks idx, in that order
ItemsOf(d, scores, idx) ==
    [n \in 1..Len(idx) |->
        [ id    |-> d.ids[idx[n]],
          text  |-> d.texts[idx[n]],
          score |-> scores[idx[n]],
          page  |-> d.pages[idx[n]] ]]

PureRelevance == Searched /\ req.opts.mmrLambda = 10

\* C5: with mmrLambda = 1 the result is the topK candidates of highest
\* similarity in non-increasing similarity order, the same list as a plain
\* top-k relevance ranking of the candidates.
C5_LambdaOneIsTopK ==
    PureRelevance =>
        LET scores == SearchScores
            cands == SearchCandidates
        IN  /\ The(ret) = ItemsOf(The(db), scores,
                                  Take(SortDesc(cands, scores), req.opts.topK))
            /\ \A i, j \in 1..Len(The(ret)) :
                  i < j => The(ret)[i].score >= The(ret)[j].score
            /\ \A c \in 1..Len(cands) :
                  \/ InSeq(cands[c], picked)
                  \/ /\ Len(picked) = req.opts.topK
                     /\ \A n \in 1..Len(picked) :
                           scores[picked[n]] >= scores[cands[c]]

\* a ranking that differs from index order and leaves a candidate out
C5_Witness ==
    /\ PureRelevance
    /\ ThresholdPath
    /\ Len(The(ret)) = MaxTopK
    /\ Len(SearchCandidates) > MaxTopK
    /\ The(ret)[1].id > The(ret)[2].id
    /\ The(ret)[1].score > The(ret)[2].score

\* two chunks are near-duplicates: similarity above 0.95
NearDuplicate(a, b) == cosine(a, b) * 100 > 95 * Unit

\* chunk d of a corpus of four is distinct from three near-duplicates and
\* scores slightly (by at most 0.2) lower against the query than each
DistinctAmongDuplicates(d) ==
    LET embs == The(db).embs
        dups == (1..4) \ {d}
    IN  /\ Len(embs) = 4
        /\ d \in 1..4
        /\ \A a, b \in dups : NearDuplicate(embs[a], embs[b])
        /\ \A a \in dups :
              /\ cosine(embs[d], embs[a]) * 100 <= 80 * Unit
              /\ SearchScores[d] < SearchScores[a]
              /\ (SearchScores[a] - SearchScores[d]) * 100 <= 20 * Unit

DuplicatesCase(d) ==
    /\ Searched
    /\ req.opts.mmrLambda = 3
    /\ req.opts.topK = 2
    /\ DistinctAmongDuplicates(d)

\* C6 as stated: three near-duplicates and one distinct chunk of slightly
\* lower similarity, mmrLambda = 0.3, topK = 2: the distinct chunk is
\* returned.  (Violated when the near-duplicates reach minScore and the
\* distinct chunk does not: it is no candidate.)
C6_DistinctReturned ==
    \A d \in 1..4 :
        DuplicatesCase(d) =>
            \E n \in 1..Len(The(ret)) : The(ret)[n].id = The(db).ids[d]

\* C6 amended: the distinct chunk is returned provided it is a candidate,
\* that is, its similarity reaches minScore or no chunk's does.
C6_DistinctCandidateReturned ==
    \A d \in 1..4 :
        (DuplicatesCase(d) /\ InSeq(d, SearchCandidates)) =>
            /\ \E n \in 1..Len(The(ret)) : The(ret)[n].id = The(db).ids[d]
            /\ InSeq(d, picked)

\* the distinct chunk returned on the threshold path, past two
\* near-duplicates of higher similarity
C6_Witness ==
    \E d \in 1..4 :
        /\ DuplicatesCase(d)
        /\ ThresholdPath
        /\ InSeq(d, SearchCandidates)
        /\ picked[2] = d
        /\ The(ret)[2].id = The(db).ids[d]

\* C8: VectorDB.search over a corpus of zero chunks returns the empty list
\* for every query embedding and every option set, HybridRetriever.search
\* before load returns the empty list without asking for an embedding, and
\* neither throws.
C8_EmptyOrUnloadedGivesEmpty ==
    /\ (Searched /\ Len(index.kb) = 0) => (ret = Some(<<>>) /\ ~threw)
    /\ (req.op = "search" /\ hybrid = NewHybrid) =>
          /\ pc = "done"
          /\ ret = Some(<<>>)
          /\ embedCalls = 0
          /\ ~threw

\* a search for topK > 0 over a store built from an index without chunks
C8_Witness ==
    /\ Searched
    /\ Len(index.kb) = 0
    /\ The(db).embs = <<>>
    /\ req.opts.topK = MaxTopK
    /\ ret = Some(<<>>)

\* the chunks of the candidate list, as a set
CandidateSet == { SearchCandidates[n] : n \in 1..Len(SearchCandidates) }

\* C11: VectorDB.search returns at most min(topK, number of candidates)
\* items, each a distinct chunk, and never more than the corpus holds.
C11_AtMostTopKDistinct ==
    Searched =>
        /\ LET cands == SearchCandidates
           IN  Len(The(ret)) <= Min2(req.opts.topK,
                                     Cardinality({ cands[n] : n \in 1..Len(cands) }))
        /\ Len(The(ret)) <= Len(index.kb)
        /\ Len(The(ret)) = Len(picked)
        /\ \A i, j \in 1..Len(picked) : i # j => picked[i] # picked[j]
        /\ \A i, j \in 1..Len(The(ret)) :
              i # j => The(ret)[i].id # The(ret)[j].id

\* more candidates than topK, topK of them returned
C11_Witness ==
    /\ Searched
    /\ req.opts.topK = MaxTopK
    /\ Cardinality(CandidateSet) > MaxTopK
    /\ Len(The(ret)) = MaxTopK

C13_SortedByScore ==
    Searched =>
        \A i, j \in 1..Len(The(ret)) :
            i < j => The(ret)[i].score >= The(ret)[j].score

\* MMR selected a chunk of lower similarity first
C13_Witness ==
    /\ Searched
    /\ Len(picked) = 2
    /\ SearchScores[picked[1]] < SearchScores[picked[2]]
    /\ The(ret)[1].id = The(db).ids[picked[2]]
    /\ The(ret)[1].score > The(ret)[2].score

\* the mmr value of chunk i at selection step n of the search at hand
StepMmr(i, n) ==
    Mmr(req.opts.mmrLambda, SearchScores[i],
        Diversity(The(db).embs, i, SubSeq(picked, 1, n - 1)))

\* candidates not selected before step n
Unselected(n) == CandidateSet \ { picked[m] : m \in 1..(n - 1) }

\* position of chunk i in the candidate list
CandidatePos(i) == CHOOSE n \in 1..Len(SearchCandidates) : SearchCandidates[n] = i

---------------------------------------------------------------------------
(* VectorDB.search called several times on one store.  req and ret are the *)
(* calls made so far and what each returned.                               *)

RepeatOpts ==
    [topK : {1, MaxTopK}, minScore : {20}, mmrLambda : {0, 6}]

InitRepeat ==
    /\ index \in {[kb |-> i, tx |-> <<>>, sum |-> <<>>] : i \in KbIndexes}
    /\ db = Some(NewVectorDB(index.kb))
    /\ hybrid = NewHybrid
    /\ pc = "idle"
    /\ req = <<>>
    /\ embedCalls = 0
    /\ resp = None
    /\ picked = <<>>
    /\ ret = <<>>
    /\ threw = FALSE
    /\ trace = <<>>
    /\ idb = NoStore
    /\ txRagDB = NoTxStore
    /\ page = NoPage

RepeatSearch(q, opts) ==
    /\ Len(req) < MaxCalls
    /\ req' = Append(req, [q |-> q, opts |-> opts])
    /\ ret' = Append(ret, search(The(db), q, opts))
    /\ db' = Some(StoreAfterSearch(The(db), q, opts))
    /\ UNCHANGED <<index, hybrid, pc, embedCalls, resp, picked, threw>>
    /\ UNCHANGED <<trace, idb, txRagDB, page>>

NextRepeat == \E q \in QueryVecs, opts \in RepeatOpts : RepeatSearch(q, opts)

SpecRepeat == InitRepeat /\ [][NextRepeat]_vars

---------------------------------------------------------------------------
(* Two calls of HybridRetriever.search on one retriever, interleaved at    *)
(* their await of embed.  pc, req, resp and ret hold one entry per call,   *)
(* trace the order in which the calls started and resumed.                 *)

Callers == {"first", "second"}

ConcQueries == { q \in Queries : q.text # <<"c", "!">> }

ConcFilters == { None, Filter(None, Some(1), None, None, None) }

\* every transaction corpus beside one summary corpus of a single document
ConcDeployments ==
    { [kb |-> <<>>, tx |-> t,
       sum |-> HybridIndexOf(<< CHOOSE kd \in HybridKinds : kd.metadata = None >>)] :
        t \in HybridIndexes(MaxTxDocs) }

InitConc ==
    /\ index \in ConcDeployments
    /\ db = None
    /\ hybrid = NewHybrid
    /\ pc = [c \in Callers |-> "idle"]
    /\ req = [c \in Callers |-> [op |-> "none"]]
    /\ embedCalls = 0
    /\ resp = [c \in Callers |-> None]
    /\ picked = <<>>
    /\ ret = [c \in Callers |-> None]
    /\ threw = FALSE
    /\ trace = <<>>
    /\ idb = NoStore
    /\ txRagDB = NoTxStore
    /\ page = NoPage

\* HybridRetriever.load, which builds the two VectorDBs from the index files
ConcLoad ==
    /\ ~Loaded(hybrid)
    /\ hybrid' = LoadedHybrid(index.tx, index.sum)
    /\ UNCHANGED <<index, db, pc, req, embedCalls, resp, picked, ret, threw>>
    /\ UNCHANGED <<trace, idb, txRagDB, page>>

\* call c of HybridRetriever.search up to its await of embed
ConcStart(c, query, filter, k) ==
    /\ pc[c] = "idle"
    /\ req' = [req EXCEPT ![c] = [op |-> "search", query |-> query,
                                  filter |-> filter, k |-> k]]
    /\ IF ~Loaded(hybrid)
       THEN /\ pc' = [pc EXCEPT ![c] = "done"]
            /\ ret' = [ret EXCEPT ![c] = Some(<<>>)]
            /\ UNCHANGED embedCalls
       ELSE /\ pc' = [pc EXCEPT ![c] = "embedding"]
            /\ embedCalls' = embedCalls + 1
            /\ UNCHANGED ret
    /\ trace' = Append(trace, <<c, "start">>)
    /\ UNCHANGED <<idb, txRagDB, page>>
    /\ UNCHANGED <<index, db, hybrid, resp, picked, threw>>

\* call c of HybridRetriever.search from the answer of the embedding service
ConcResume(c) ==
    /\ pc[c] = "embedding"
    /\ \E response \in Responses(req[c].query) :
       LET qEmb == embed(response)
       IN  /\ resp' = [resp EXCEPT ![c] = Some(response)]
           /\ IF qEmb.threw \/ qEmb.value = None
              THEN /\ ret' = [ret EXCEPT ![c] = Some(<<>>)]
                   /\ UNCHANGED hybrid
              ELSE /\ ret' = [ret EXCEPT ![c] =
                                Some(HybridResult(hybrid, req[c].query.text,
                                                  The(qEmb.value),
                                                  req[c].filter, req[c].k))]
                   /\ hybrid' = HybridAfterSearch(hybrid, req[c].filter)
    /\ pc' = [pc EXCEPT ![c] = "done"]
    /\ trace' = Append(trace, <<c, "resume">>)
    /\ UNCHANGED <<idb, txRagDB, page>>
    /\ UNCHANGED <<index, db, req, embedCalls, picked, threw>>

NextConc ==
    \/ ConcLoad
    \/ \E c \in Callers, q \in ConcQueries, f \in ConcFilters :
          ConcStart(c, q, f, MaxK)
    \/ \E c \in Callers : ConcResume(c)

SpecConc == InitConc /\ [][NextConc]_vars

\* what call c returns when it runs alone on the retriever as loaded
AloneResult(c) ==
    IF resp[c] = None \/ The(resp[c]).kind # "ok" THEN <<>>
    ELSE HybridResult(LoadedHybrid(index.tx, index.sum), req[c].query.text,
                      The(resp[c]).embedding, req[c].filter, req[c].k)

\* no step changes the index files, and none changes the loaded retriever
StoreUntouched ==
    /\ index' = index
    /\ Loaded(hybrid) => hybrid' = hybrid
    /\ ~Loaded(hybrid) => hybrid' \in {hybrid, LoadedHybrid(index.tx, index.sum)}

---------------------------------------------------------------------------
(* fuse applied to a dense list and a lexical score map, and again with    *)
(* the BM25 score of one chunk of the dense list raised.  req holds the    *)
(* arguments, ret the two fused lists.                                     *)

\* dense scores of a chunk: absent from the list, -1.0, 0.8
DenseChoices == { None, Some(-Unit), Some((4 * Unit) \div 5) }

\* BM25 scores of a document, in thousandths: absent from the map, or an
\* idf-sized value
BmChoices ==
    { None, Some(IdfTable[1][1]), Some(IdfTable[2][1]), Some(IdfTable[3][1]) }

FusePool(n) == [i \in 1..n |-> [id |-> i, text |-> TextAt(i)]]

\* the dense list of the chunks with a score, as VectorDB.search returns it
DenseList(n, sc) ==
    LET present == SelectSeq([i \in 1..n |-> i], LAMBDA i : sc[i] # None)
        byScore == SortDesc(present, [i \in 1..n |-> IF sc[i] = None THEN 0
                                                     ELSE The(sc[i])])
    IN  [m \in 1..Len(byScore) |->
            [id |-> byScore[m], text |-> TextAt(byScore[m]),
             score |-> The(sc[byScore[m]]), page |-> None]]

\* the score map of the documents with a score, in document order
BmMap(n, bs) ==
    LET present == SelectSeq([i \in 1..n |-> i], LAMBDA i : bs[i] # None)
    IN  [m \in 1..Len(present) |-> <<present[m], The(bs[present[m]])>>]

\* a chunk of the dense list and a BM25 score above the one it has
Raisable(sc, bs, c, v) ==
    /\ sc[c] # None
    /\ IF bs[c] = None THEN TRUE ELSE The(bs[c]) < The(v)

InitFuse ==
    /\ index = [kb |-> <<>>, tx |-> <<>>, sum |-> <<>>]
    /\ db = None
    /\ hybrid = NewHybrid
    /\ pc = "idle"
    /\ \E n \in 1..MaxPoolDocs :
          \E sc \in [1..n -> DenseChoices], bs \in [1..n -> BmChoices],
             c \in 1..n, v \in BmChoices \ {None} :
              /\ Raisable(sc, bs, c, v)
              /\ req = [n |-> n, dense |-> sc, bm |-> bs, id |-> c, raised |-> v]
    /\ embedCalls = 0
    /\ resp = None
    /\ picked = <<>>
    /\ ret = None
    /\ threw = FALSE
    /\ trace = <<>>
    /\ idb = NoStore
    /\ txRagDB = NoTxStore
    /\ page = NoPage

FuseTwice ==
    /\ pc = "idle"
    /\ ret' = Some([ before |-> fuse(DenseList(req.n, req.dense),
                                     BmMap(req.n, req.bm),
                                     "transaction", FusePool(req.n), MaxK),
                     after  |-> fuse(DenseList(req.n, req.dense),
                                     BmMap(req.n, [req.bm EXCEPT ![req.id] = req.raised]),
                                     "transaction", FusePool(req.n), MaxK) ])
    /\ pc' = "done"
    /\ UNCHANGED <<index, db, hybrid, req, embedCalls, resp, picked, threw>>
    /\ UNCHANGED <<trace, idb, txRagDB, page>>

NextFuse == FuseTwice

SpecFuse == InitFuse /\ [][NextFuse]_vars

\* the fused score of chunk id in a fused list that holds it
FusedScoreOf(fused, id) ==
    (CHOOSE it \in { fused[n] : n \in 1..Len(fused) } : it.id = id).score

\* C17: for a chunk of the dense list, with its dense score and every other
\* chunk's dense and lexical scores held fixed, raising its BM25 score
\* never lowers its fused score.
C17_FusedMonotoneInBm25 ==
    ret # None =>
        FusedScoreOf(The(ret).after, req.id) >= FusedScoreOf(The(ret).before, req.id)

\* a chunk whose BM25 score was below another's and rose past it, and whose
\* fused score rose
C17_Witness ==
    /\ ret # None
    /\ req.bm[req.id] # None
    /\ \E o \in 1..req.n :
          /\ o # req.id
          /\ req.bm[o] # None
          /\ The(req.bm[o]) > The(req.bm[req.id])
          /\ The(req.bm[o]) < The(req.raised)
    /\ FusedScoreOf(The(ret).after, req.id) > FusedScoreOf(The(ret).before, req.id)

---------------------------------------------------------------------------
(* VectorDB.search on embeddings of one, two and three dimensions, zero    *)
(* vectors among them, and on <<1, 1>>, whose normalised components are    *)
(* not representable.                                                      *)

MixedVecs ==
    { <<5>>, <<0>>, <<6, 8>>, <<1, 1>>, <<0, 0>>, <<0, 3, 4>>, <<-4, 0, -3>> }

MixedIndexes ==
    { IndexOf(e) : e \in UNION { [1..n -> MixedVecs] : n \in 0..MaxMixedChunks } }

MixedOpts == [topK : {MaxTopK}, minScore : {20}, mmrLambda : {6}]

InitCos ==
    /\ index \in {[kb |-> i, tx |-> <<>>, sum |-> <<>>] : i \in MixedIndexes}
    /\ db = Some(NewVectorDB(index.kb))
    /\ hybrid = NewHybrid
    /\ pc = "idle"
    /\ req = [op |-> "none"]
    /\ embedCalls = 0
    /\ resp = None
    /\ picked = <<>>
    /\ ret = None
    /\ threw = FALSE
    /\ trace = <<>>
    /\ idb = NoStore
    /\ txRagDB = NoTxStore
    /\ page = NoPage

NextCos == \E q \in MixedVecs, opts \in MixedOpts : VdbSearch(q, opts)

SpecCos == InitCos /\ [][NextCos]_vars

\* C18: every score VectorDB.search returns lies in [-1, 1], zero vectors
\* and embeddings of another length than the query's included.  (Violated:
\* the normalised components are rounded when stored, and the dot product
\* of a stored vector with itself can exceed 1.)
C18_ScoresInUnitRange ==
    Searched =>
        \A n \in 1..Len(The(ret)) :
            /\ The(ret)[n].score >= 0 - Unit
            /\ The(ret)[n].score <= Unit

---------------------------------------------------------------------------
(* ChatPage's initialisation of the Retriever: from IndexedDB, else by     *)
(* migrating rag_index.json into IndexedDB, else from rag_index.json in    *)
(* memory.  index.kb is the content of rag_index.json, req.store the store *)
(* as it was at startup, ret the flags loaded and ragMissing.              *)

\* the meta record setMeta writes
MetaRecord == [model |-> "mxbai-embed-large", dims |-> 2]

\* the chunks a store may hold at startup: none, chunk 1 of an earlier
\* migration, a chunk of an index that is no longer the seed
StoredChunks ==
    { <<>>,
      << [id |-> 1, text |-> TextAt(1), embedding |-> <<4, 3>>] >>,
      << [id |-> 3, text |-> TextAt(3), embedding |-> <<6, 8>>] >> }

Stores == [meta : {None, Some(MetaRecord)}, chunks : StoredChunks]

\* rag_index.json: up to two chunks
Seeds == { IndexOf(e) : e \in UNION { [1..n -> {<<4, 3>>}] : n \in 0..2 } }

\* j.chunks.map(ch => ({ id: ch.id, text: ch.text, embedding: ch.embedding }))
SeedChunks(chunks) ==
    [i \in 1..Len(chunks) |->
        [id |-> chunks[i].id, text |-> chunks[i].text,
         embedding |-> chunks[i].embedding]]

\* putChunks: store.put(ch) for each chunk, keyed by id; getAll returns the
\* chunks in key order
PutChunks(stored, chunks) ==
    LET kept == SelectSeq(stored, LAMBDA c : ~HasId(chunks, c.id))
        all == kept \o chunks
        key == [n \in 1..Len(all) |-> 0 - all[n].id]
        order == SortDesc([n \in 1..Len(all) |-> n], key)
    IN  [n \in 1..Len(order) |-> all[order[n]]]

\* a loadFromIDB that never succeeds
LoadFromIDBNever(store, readOk) == FALSE

\* Retriever.loadFromIDB returns true: the reads succeed, and there are a
\* meta record and at least one chunk
LoadFromIDBOk(store, readOk) ==
    readOk /\ store.meta # None /\ Len(store.chunks) > 0

\* the VectorDB loadFromIDB builds from the chunks of the store
StoreVectorDB(store) ==
    NewVectorDB([i \in 1..Len(store.chunks) |->
                    [id |-> store.chunks[i].id, text |-> store.chunks[i].text,
                     page |-> None, embedding |-> store.chunks[i].embedding]])

\* how far the writes of the migration get before one fails
WriteOutcomes == {"open failed", "setMeta written", "all written"}

StoreAfterWrites(store, chunks, outcome) ==
    CASE outcome = "open failed" -> store
      [] outcome = "setMeta written" -> [store EXCEPT !.meta = Some(MetaRecord)]
      [] OTHER -> [meta |-> Some(MetaRecord),
                   chunks |-> PutChunks(store.chunks, SeedChunks(chunks))]

WritesOf(outcome) ==
    CASE outcome = "open failed" -> <<>>
      [] outcome = "setMeta written" -> <<"setMeta">>
      [] OTHER -> <<"setMeta", "putChunks">>

InitChat ==
    /\ index \in {[kb |-> i, tx |-> <<>>, sum |-> <<>>] : i \in Seeds}
    /\ db = None
    /\ hybrid = NewHybrid
    /\ pc = "loadFromIDB"
    /\ idb \in Stores
    /\ txRagDB = NoTxStore
    /\ page = NoPage
    /\ req = [op |-> "init", store |-> idb]
    /\ embedCalls = 0
    /\ resp = None
    /\ picked = <<>>
    /\ ret = [loaded |-> FALSE, ragMissing |-> FALSE]
    /\ threw = FALSE
    /\ trace = <<>>

\* 1) const ok = await r.loadFromIDB(); if (ok) { ...; return; }
ChatLoadFromIDB(readOk) ==
    /\ pc = "loadFromIDB"
    /\ trace' = Append(trace, IF readOk THEN "read" ELSE "read failed")
    /\ IF LoadFromIDBOk(idb, readOk)
       THEN /\ db' = Some(StoreVectorDB(idb))
            /\ ret' = [loaded |-> TRUE, ragMissing |-> FALSE]
            /\ pc' = "done"
       ELSE /\ pc' = "migrate"
            /\ UNCHANGED <<db, ret>>
    /\ UNCHANGED <<index, hybrid, req, embedCalls, resp, picked, threw, idb, txRagDB, page>>

\* 2) fetch rag_index.json, write it to IndexedDB, loadFromIDB again
ChatMigrate(jsonOk, outcome, readOk) ==
    /\ pc = "migrate"
    /\ IF ~jsonOk
       THEN /\ trace' = Append(trace, "fetch")
            /\ pc' = "legacy"
            /\ UNCHANGED <<db, ret, idb>>
       ELSE /\ idb' = StoreAfterWrites(idb, index.kb, outcome)
            /\ IF outcome = "all written" /\ LoadFromIDBOk(idb', readOk)
               THEN /\ trace' = trace \o <<"fetch">> \o WritesOf(outcome) \o <<"read">>
                    /\ db' = Some(StoreVectorDB(idb'))
                    /\ ret' = [loaded |-> TRUE, ragMissing |-> FALSE]
                    /\ pc' = "done"
               ELSE /\ trace' = trace \o <<"fetch">> \o WritesOf(outcome)
                                  \o IF outcome # "all written" THEN <<>>
                                     ELSE IF readOk THEN <<"read">>
                                     ELSE <<"read failed">>
                    /\ pc' = "legacy"
                    /\ UNCHANGED <<db, ret>>
    /\ UNCHANGED <<index, hybrid, req, embedCalls, resp, picked, threw, txRagDB, page>>

\* 3) await r.loadIndex(url2); on success a second fetch for setRagIndex
ChatLegacy(jsonOk) ==
    /\ pc = "legacy"
    /\ IF jsonOk
       THEN /\ db' = Some(NewVectorDB(index.kb))
            /\ ret' = [loaded |-> TRUE, ragMissing |-> FALSE]
            /\ trace' = trace \o <<"fetch", "fetch">>
       ELSE /\ ret' = [loaded |-> FALSE, ragMissing |-> TRUE]
            /\ trace' = Append(trace, "fetch")
            /\ UNCHANGED db
    /\ pc' = "done"
    /\ UNCHANGED <<index, hybrid, req, embedCalls, resp, picked, threw, idb, txRagDB, page>>

NextChat ==
    \/ \E readOk \in BOOLEAN : ChatLoadFromIDB(readOk)
    \/ \E jsonOk \in BOOLEAN, outcome \in WriteOutcomes, readOk \in BOOLEAN :
          ChatMigrate(jsonOk, outcome, readOk)
    \/ \E jsonOk \in BOOLEAN : ChatLegacy(jsonOk)

SpecChat == InitChat /\ [][NextChat]_vars

Populated(store) == store.meta # None /\ Len(store.chunks) > 0

Traced(event) == \E n \in 1..Len(trace) : trace[n] = event

\* the retriever was loaded from the store as it was at startup, without a
\* request for rag_index.json and without a write to the store
LoadedFromStartupStore ==
    /\ pc = "done"
    /\ db = Some(StoreVectorDB(req.store))
    /\ ret.loaded
    /\ idb = req.store
    /\ ~Traced("fetch") /\ ~Traced("setMeta") /\ ~Traced("putChunks")

---------------------------------------------------------------------------
(* HybridRetriever.applyFilter applied to a document list *)

\* document metadata as scripts/build-transactions-rag.js writes them:
\* transactions, monthly summaries, a record with no year or month, none
Metadatas ==
    { Meta(Some(2024), Some(1), None, None, None),
      Meta(Some(2024), Some(2), None, None, None),
      Meta(Some(2024), Some(1), Some("groceries"), Some("magnum"), Some("KZT")),
      Meta(Some(2025), Some(2), Some("food_out"), None, Some("USD")),
      Meta(None, None, Some("groceries"), None, None),
      None }

Filters ==
    { Filter(y, m, c, me, cu) :
        y \in {None, Some(2024)}, m \in {None, Some(1)},
        c \in {None, Some("groceries")}, me \in {None, Some("magnum")},
        cu \in {None, Some("KZT")} } \cup {None}

\* documents d1, d2, ... with the metadata ms[1], ms[2], ...
DocsOf(ms) ==
    [i \in 1..Len(ms) |-> [id |-> i, text |-> TextAt(i), metadata |-> ms[i]]]

DocLists ==
    { DocsOf(ms) : ms \in UNION { [1..n -> Metadatas] : n \in 0..MaxFilterDocs } }

InitFilter ==
    /\ index = [kb |-> <<>>, tx |-> <<>>, sum |-> <<>>]
    /\ db = None
    /\ hybrid = NewHybrid
    /\ pc = "idle"
    /\ req \in [op : {"applyFilter"}, docs : DocLists, f : Filters]
    /\ embedCalls = 0
    /\ resp = None
    /\ picked = <<>>
    /\ ret = None
    /\ threw = FALSE
    /\ trace = <<>>
    /\ idb = NoStore
    /\ txRagDB = NoTxStore
    /\ page = NoPage

ApplyFilter ==
    /\ pc = "idle"
    /\ ret' = Some(applyFilter(req.docs, req.f))
    /\ pc' = "done"
    /\ UNCHANGED <<index, db, hybrid, req, embedCalls, resp, picked, threw>>
    /\ UNCHANGED <<trace, idb, txRagDB, page>>

NextFilter == ApplyFilter

SpecFilter == InitFilter /\ [][NextFilter]_vars

\* the filter semantics of the specification: a provided field is passed
\* when the document's field is absent or equal
LenientPass(d, f) ==
    \A field \in FilterFields :
        \/ f[field] = None
        \/ MetadataOf(d)[MetaField(field)] = None
        \/ MetadataOf(d)[MetaField(field)] = f[field]

LenientFilter(docs, f) ==
    IF f = None THEN docs
    ELSE SelectSeq(docs, LAMBDA d : LenientPass(d, The(f)))

\* C1: applyFilter keeps a document if and only if, for every field the
\* filter provides, the document's metadata field is absent or equal to the
\* filter's value.  (Violated: for year and month the code has no
\* pass-through for an absent metadata field.)
C1_FilterLenientOnAbsent ==
    (pc = "done" /\ req.op = "applyFilter")
        => ret = Some(LenientFilter(req.docs, req.f))

ThreeDocs ==
    DocsOf(<< Meta(Some(2024), Some(1), None, None, None),
              Meta(Some(2024), Some(2), None, None, None),
              None >>)

MonthOne == Filter(None, Some(1), None, None, None)

\* C2: of the documents with metadata {year:2024,month:1},
\* {year:2024,month:2} and none, the filter {month:1} keeps the first and
\* the third and drops the second.  (Violated: the third is dropped too.)
C2_NoMetadataSurvives ==
    (pc = "done" /\ req.op = "applyFilter" /\ req.docs = ThreeDocs
        /\ req.f = MonthOne)
        => ret = Some(<< ThreeDocs[1], ThreeDocs[3] >>)

---------------------------------------------------------------------------
(* HybridRetriever.search on a loaded retriever, the values of its locals  *)
(* kept: trace holds one record of the pools, the restricted dense lists,  *)
(* the lexical score maps and the two fused lists of the search.           *)

\* the two lexical score maps computed over the whole corpora
LexicalScoresWholeCorpus(h, query, filter) ==
    [ transaction |-> bm25Score(query, h.txDocs),
      summary |-> bm25Score(query, h.sumDocs) ]

\* txBm25 and sumBm25 of HybridRetriever.search: BM25 on the filtered pools
LexicalScores(h, query, filter) ==
    [ transaction |-> bm25Score(query, applyFilter(h.txDocs, filter)),
      summary |-> bm25Score(query, applyFilter(h.sumDocs, filter)) ]

\* the locals of HybridRetriever.search after the embedding has arrived
\* (lines 107-148), by corpus: txPool, txDenseFiltered, txBm25, fusedTx and
\* their summary counterparts
HybridLocals(h, query, qEmb, filter, k) ==
    LET txPool == applyFilter(h.txDocs, filter)
        sumPool == applyFilter(h.sumDocs, filter)
        txDenseFiltered == RestrictToPool(search(The(h.txDb), qEmb, DenseOpts(k)), txPool)
        sumDenseFiltered == RestrictToPool(search(The(h.sumDb), qEmb, DenseOpts(k)), sumPool)
        bm25 == LexicalScores(h, query, filter)
    IN  [ transaction |->
            [pool |-> txPool, dense |-> txDenseFiltered, bm |-> bm25.transaction,
             fused |-> fuse(txDenseFiltered, bm25.transaction, "transaction",
                            txPool, k)],
          summary |->
            [pool |-> sumPool, dense |-> sumDenseFiltered, bm |-> bm25.summary,
             fused |-> fuse(sumDenseFiltered, bm25.summary, "summary",
                            sumPool, k)] ]

Sources == {"transaction", "summary"}

\* the corpora of a loaded retriever: every transaction corpus beside a
\* summary corpus of no chunk or of one
LoadedDeployments ==
    { [kb |-> IndexOf(<<>>), tx |-> t, sum |-> u] :
        t \in HybridIndexes(MaxLocalsTxDocs), u \in HybridIndexes(1) }

InitLocals ==
    /\ index \in LoadedDeployments
    /\ db = None
    /\ hybrid = LoadedHybrid(index.tx, index.sum)
    /\ pc = "idle"
    /\ req = [op |-> "none"]
    /\ embedCalls = 0
    /\ resp = None
    /\ picked = <<>>
    /\ ret = None
    /\ threw = FALSE
    /\ trace = <<>>
    /\ idb = NoStore
    /\ txRagDB = NoTxStore
    /\ page = NoPage

\* HybridRetriever.search from the answer of the embedding service on
SearchResumeLocals ==
    /\ pc = "embedding"
    /\ req.op = "search"
    /\ \E response \in Responses(req.query) :
       LET qEmb == embed(response)
       IN  /\ resp' = Some(response)
           /\ threw' = qEmb.threw
           /\ IF qEmb.threw \/ qEmb.value = None
              THEN /\ ret' = IF qEmb.threw THEN None ELSE Some(<<>>)
                   /\ trace' = <<>>
              ELSE LET locals == HybridLocals(hybrid, req.query.text,
                                              The(qEmb.value), req.filter, req.k)
                   IN  /\ ret' = Some(MergeTopK(locals.transaction.fused,
                                                locals.summary.fused, req.k))
                       /\ trace' = <<locals>>
    /\ pc' = "done"
    /\ hybrid' = HybridAfterSearch(hybrid, req.filter)
    /\ UNCHANGED <<index, db, req, embedCalls, picked, idb, txRagDB, page>>

NextLocals ==
    \/ \E q \in Queries, f \in HybridFilters, k \in 0..MaxK : HybridSearch(q, f, k)
    \/ SearchResumeLocals

SpecLocals == InitLocals /\ [][NextLocals]_vars

\* a search that got as far as fusing
Fused == pc = "done" /\ req.op = "search" /\ trace # <<>>

\* the search at hand returns what HybridResult gives
LocalsAgreeWithResult ==
    Fused => ret = Some(HybridResult(hybrid, req.query.text, The(resp).embedding,
                                     req.filter, req.k))

\* the greatest value of a non-empty list of numbers
Greatest(values) ==
    CHOOSE mx \in { values[n] : n \in 1..Len(values) } :
        \A n \in 1..Len(values) : values[n] <= mx

\* w/10 * (x / mx) in thousandths, for mx # 0
Share(w, x, mx) ==
    IF mx > 0 THEN (w * 100 * x) \div mx ELSE (w * 100 * (0 - x)) \div (0 - mx)

\* 0.6 * (dense / max dense) for the score x of an item of the dense list
DenseShare(x, dense) ==
    Share(6, x, Greatest([n \in 1..Len(dense) |-> dense[n].score]))

HasBm(bm, id) == \E n \in 1..Len(bm) : bm[n][1] = id

\* 0.4 * (bm25 / max bm25) for the chunk id, 0 when it has no lexical score
LexicalShare(id, bm) ==
    IF HasBm(bm, id) THEN Share(4, BmGet(bm, id), Greatest(BmValues(bm))) ELSE 0

\* the fused list l is what the claim makes of the dense list and the map
FusedAsClaimed(l, k) ==
    /\ Len(l.fused) >= Len(l.dense)
    /\ Len(l.fused) <= Len(l.dense) + k
    /\ \A n \in 1..Len(l.dense) :
          /\ l.fused[n].id = l.dense[n].id
          /\ Greatest([m \in 1..Len(l.dense) |-> l.dense[m].score]) # 0
          /\ l.fused[n].score = DenseShare(l.dense[n].score, l.dense)
                                + LexicalShare(l.dense[n].id, l.bm)
    /\ \A n \in (Len(l.dense) + 1)..Len(l.fused) :
          /\ HasBm(l.bm, l.fused[n].id)
          /\ ~HasId(l.dense, l.fused[n].id)
          /\ l.fused[n].score = LexicalShare(l.fused[n].id, l.bm)
    /\ \A n, m \in 1..Len(l.fused) : n # m => l.fused[n].id # l.fused[m].id

\* C21: for each corpus, every chunk of the filtered dense list is in the
\* fused list with the score 0.6 * (dense / max dense) + 0.4 * (bm25 / max
\* bm25), the BM25 term being 0 without a lexical score; at most k further
\* chunks follow, each with a BM25 score, none of the dense list, scored
\* 0.4 * (bm25 / max bm25); no chunk is there twice.  (Violated: the
\* divisor of the dense term is Math.max(max dense, 1e-6), which is 1e-6
\* when no dense score is positive.)
C21_FusedScores ==
    Fused => \A source \in Sources : FusedAsClaimed(trace[1][source], req.k)

\* the same for the corpora whose greatest dense score is positive
FusedScoresPositiveMax ==
    Fused => \A source \in Sources :
        LET l == trace[1][source]
        IN  (\E n \in 1..Len(l.dense) : l.dense[n].score > 0)
                => FusedAsClaimed(l, req.k)

\* a corpus with more lexical-only chunks than were added
MoreLexicalThanAdded ==
    /\ Fused
    /\ \E source \in Sources :
          LET l == trace[1][source]
          IN  /\ Len(l.dense) > 0
              /\ Len(l.fused) = Len(l.dense) + req.k
              /\ Cardinality({ n \in 1..Len(l.bm) : ~HasId(l.dense, l.bm[n][1]) }) > req.k

\* the items of the result that fuse made of BM25-only chunks
LexicalOnly(item) == ~HasId(trace[1][item.source].dense, item.id)

\* C26: every fused score returned by HybridRetriever.search lies in
\* [0, 1], and every lexical-only item's score in (0, 0.4], the dense
\* results of the below-threshold fallback included.  (Violated: a dense
\* list without a positive score is divided by 1e-6.)
C26_FusedScoresInRange ==
    Fused =>
        \A n \in 1..Len(The(ret)) :
            /\ The(ret)[n].score >= 0
            /\ The(ret)[n].score <= 1000
            /\ LexicalOnly(The(ret)[n]) =>
                  The(ret)[n].score > 0 /\ The(ret)[n].score <= 400

\* the part of C26 that is about lexical-only items and upper ends
ScoresAtMostOne ==
    Fused =>
        \A n \in 1..Len(The(ret)) :
            /\ The(ret)[n].score <= 1000
            /\ LexicalOnly(The(ret)[n]) =>
                  The(ret)[n].score > 0 /\ The(ret)[n].score <= 400

\* a lexical-only item is returned
LexicalOnlyReturned ==
    /\ Fused
    /\ \E n \in 1..Len(The(ret)) : LexicalOnly(The(ret)[n])

---------------------------------------------------------------------------
(* The lexical scores and the filter *)

\* document d is in applyFilter(docs, filter) for the docs it is in
Passes(d, filter) == IF filter = None THEN TRUE ELSE PassesFilter(d, The(filter))

\* the chunks of an index whose documents pass the filter, and of the
\* others those at the positions kept
WithoutExcluded(chunks, filter, kept) ==
    LET docs == RawDocs(chunks)
        at == SelectSeq([i \in 1..Len(chunks) |-> i],
                        LAMBDA i : Passes(docs[i], filter) \/ i \in kept)
    IN  [n \in 1..Len(at) |-> chunks[at[n]]]

\* the positions of the chunks the filter excludes
Excluded(chunks, filter) ==
    { i \in 1..Len(chunks) : ~Passes(RawDocs(chunks)[i], filter) }

\* the lexical score map of a corpus in the search at hand, had the
\* retriever been loaded with other chunks for that corpus
LexicalScoresWith(source, chunks) ==
    LexicalScores(IF source = "transaction"
                  THEN LoadedHybrid(chunks, index.sum)
                  ELSE LoadedHybrid(index.tx, chunks),
                  req.query.text, req.filter)[source]

ChunksOf(source) == IF source = "transaction" THEN index.tx ELSE index.sum

\* C25: the BM25 scores of a search depend on the query and on the
\* documents that passed the filter only: with any of the excluded
\* documents taken out of the corpus the lexical score map is the same.
C25_LexicalScoresOverFilteredPool ==
    Fused =>
        \A source \in Sources :
            \A kept \in SUBSET Excluded(ChunksOf(source), req.filter) :
                LexicalScoresWith(source,
                    WithoutExcluded(ChunksOf(source), req.filter, kept))
                = trace[1][source].bm

\* an excluded document holds a token of the query, and the scores over the
\* whole corpus are not those of the search
C25_Witness ==
    /\ Fused
    /\ \E source \in Sources :
          LET l == trace[1][source]
              whole == bm25Score(req.query.text, CorpusOf(source))
          IN  /\ Excluded(ChunksOf(source), req.filter) # {}
              /\ \E n \in 1..Len(l.bm) : BmGet(whole, l.bm[n][1]) # l.bm[n][2]
              /\ \E n \in 1..Len(whole) : ~HasId(l.pool, whole[n][1])

---------------------------------------------------------------------------
(* No chunk twice in the result *)

\* C29: chunk ids being unique within each corpus, no two items of the
\* list HybridRetriever.search returns have the same source and id.
C29_NoPairTwice ==
    Fused =>
        \A n, m \in 1..Len(The(ret)) :
            n # m => \/ The(ret)[n].source # The(ret)[m].source
                     \/ The(ret)[n].id # The(ret)[m].id

\* a chunk that is a dense hit and a BM25 hit is returned once, its score
\* the sum of a positive dense term and a positive lexical term
C29_Witness ==
    /\ Fused
    /\ \E n \in 1..Len(The(ret)) :
          LET item == The(ret)[n]
              l == trace[1][item.source]
          IN  /\ HasId(l.dense, item.id)
              /\ HasBm(l.bm, item.id)
              /\ \E d \in 1..Len(l.dense) :
                    /\ l.dense[d].id = item.id
                    /\ DenseShare(l.dense[d].score, l.dense) > 0
                    /\ LexicalShare(item.id, l.bm) > 0
                    /\ item.score = DenseShare(l.dense[d].score, l.dense)
                                    + LexicalShare(item.id, l.bm)
              /\ Cardinality({ m \in 1..Len(The(ret)) :
                                 The(ret)[m].source = item.source
                                 /\ The(ret)[m].id = item.id }) = 1

---------------------------------------------------------------------------
(* The context of Retriever.retrieve as a prefix of the results *)

\* the lengths of the blocks of the first n results, added up
RECURSIVE BlocksLength(_, _)
BlocksLength(results, n) ==
    IF n = 0 THEN 0
    ELSE BlocksLength(results, n - 1) + Len(Block(n, results[n]))

\* C22: the context is made of the blocks of the first n results, in result
\* order and numbered 1..n, n being where the accumulated length of the
\* blocks would first pass maxContextChars (or the number of results); no
\* later block is in it.
C22_ContextIsPrefix ==
    (Returned("retrieve") /\ ret # None) =>
        \E n \in 0..Len(The(ret).chunks) :
            /\ The(ret).context = WholeBlocks(The(ret).chunks, n)
            /\ BlocksLength(The(ret).chunks, n) <= req.opts.maxContextChars
            /\ \/ n = Len(The(ret).chunks)
               \/ BlocksLength(The(ret).chunks, n + 1) > req.opts.maxContextChars

\* assembly stopped after the first block at a block too long, and the
\* block after that one would have fitted
C22_Witness ==
    /\ Returned("retrieve")
    /\ ret # None
    /\ Len(The(ret).chunks) >= 3
    /\ The(ret).context = WholeBlocks(The(ret).chunks, 1)
    /\ BlocksLength(The(ret).chunks, 1) + Len(Block(3, The(ret).chunks[3]))
          <= req.opts.maxContextChars

---------------------------------------------------------------------------
(* ChatPage's migration of tx_index.json and sum_index.json into txRagDB,  *)
(* over several loads of the page.  index.tx and index.sum are the two     *)
(* files, req.run counts the loads, ret is how the effect of the load at   *)
(* hand ended.                                                             *)

MaxRuns == 3  \* loads of the page

\* the meta record txSetMeta writes
TxMetaRecord == [model |-> "mxbai-embed-large", dims |-> 2]

\* chunks.map(c => ({ id: c.id, text: c.text, embedding: c.embedding,
\*                    metadata: c.metadata }))
TxChunksOf(chunks) ==
    [i \in 1..Len(chunks) |->
        [id |-> chunks[i].id, text |-> chunks[i].text,
         embedding |-> chunks[i].embedding, metadata |-> chunks[i].metadata]]

InitTx ==
    /\ index \in { [kb |-> IndexOf(<<>>), tx |-> t, sum |-> u] :
                     t \in HybridIndexes(MaxTxDocs), u \in HybridIndexes(MaxSumDocs) }
    /\ db = None
    /\ hybrid = NewHybrid
    /\ pc = "idle"
    /\ req = [op |-> "migrateTx", run |-> 1]
    /\ embedCalls = 0
    /\ resp = None
    /\ picked = <<>>
    /\ ret = None
    /\ threw = FALSE
    /\ trace = <<>>
    /\ idb = NoStore
    /\ txRagDB = NoTxStore
    /\ page = NoPage

\* what migrateTx leaves alone, and the end of the effect: an exception is
\* caught and dropped
TxEnds(how) ==
    /\ pc' = "done"
    /\ ret' = Some(how)

TxFrame ==
    UNCHANGED <<index, db, hybrid, req, embedCalls, resp, picked, threw, trace,
                idb, page>>

\* const db = await openTxDB(); const meta = await txGetMeta(db);
\* if (meta) return;
MigrateTxStart(opened) ==
    /\ pc = "idle"
    /\ IF ~opened THEN TxEnds("failed")
       ELSE IF txRagDB.meta # None THEN TxEnds("already migrated")
       ELSE pc' = "fetch" /\ ret' = ret
    /\ UNCHANGED txRagDB
    /\ TxFrame

\* the four fetches: if (!txRes.ok || !sumRes.ok) return;
MigrateTxFetch(outcome) ==
    /\ pc = "fetch"
    /\ CASE outcome = "rejected" -> TxEnds("failed")
         [] outcome = "not ok" -> TxEnds("nothing to migrate")
         [] OTHER -> pc' = "setMeta" /\ ret' = ret
    /\ UNCHANGED txRagDB
    /\ TxFrame

\* await txSetMeta(db, {...})
MigrateTxSetMeta(ok) ==
    /\ pc = "setMeta"
    /\ IF ok
       THEN /\ txRagDB' = [txRagDB EXCEPT !.meta = Some(TxMetaRecord)]
            /\ pc' = "putTxChunks"
            /\ ret' = ret
       ELSE TxEnds("failed") /\ UNCHANGED txRagDB
    /\ TxFrame

\* await txPutTxChunks(db, ...): one transaction, all the chunks or none
MigrateTxPutTxChunks(ok) ==
    /\ pc = "putTxChunks"
    /\ IF ok
       THEN /\ txRagDB' = [txRagDB EXCEPT
                             !.tx_chunks = PutChunks(@, TxChunksOf(index.tx))]
            /\ pc' = "putSumChunks"
            /\ ret' = ret
       ELSE TxEnds("failed") /\ UNCHANGED txRagDB
    /\ TxFrame

\* await txPutSumChunks(db, ...)
MigrateTxPutSumChunks(ok) ==
    /\ pc = "putSumChunks"
    /\ IF ok
       THEN /\ txRagDB' = [txRagDB EXCEPT
                             !.sum_chunks = PutChunks(@, TxChunksOf(index.sum))]
            /\ pc' = "setRaw"
            /\ ret' = ret
       ELSE TxEnds("failed") /\ UNCHANGED txRagDB
    /\ TxFrame

\* if (txDocsText) await txSetRaw(db, 'tx_docs', ...); the same for
\* sum_docs; written is the set of keys put before a put failed, if any did
MigrateTxSetRaw(written, ok) ==
    /\ pc = "setRaw"
    /\ txRagDB' = [txRagDB EXCEPT !.raw = @ \cup written]
    /\ TxEnds(IF ok THEN "migrated" ELSE "failed")
    /\ TxFrame

\* the page is closed, wherever the effect is, and opened again
PageReload ==
    /\ pc # "idle"
    /\ req.run < MaxRuns
    /\ pc' = "idle"
    /\ req' = [req EXCEPT !.run = @ + 1]
    /\ ret' = None
    /\ UNCHANGED <<index, db, hybrid, embedCalls, resp, picked, threw, trace,
                   idb, txRagDB, page>>

NextTx ==
    \/ \E opened \in BOOLEAN : MigrateTxStart(opened)
    \/ \E outcome \in {"rejected", "not ok", "ok"} : MigrateTxFetch(outcome)
    \/ \E ok \in BOOLEAN : MigrateTxSetMeta(ok)
    \/ \E ok \in BOOLEAN : MigrateTxPutTxChunks(ok)
    \/ \E ok \in BOOLEAN : MigrateTxPutSumChunks(ok)
    \/ \E written \in {{}, {"tx_docs"}, {"tx_docs", "sum_docs"}, {"sum_docs"}},
          ok \in BOOLEAN : MigrateTxSetRaw(written, ok)
    \/ PageReload

SpecTx == InitTx /\ [][NextTx]_vars

\* the load at hand found the meta record and skipped the migration
SkippedAsMigrated == pc = "done" /\ ret = Some("already migrated")

\* C28: whenever a load of the page finds the meta record and skips the
\* migration, the transaction chunks and the summary chunks are both in
\* the store, whatever write failed and wherever the page was closed in an
\* earlier load.  (Violated: the meta record is written first.)
C28_MetaMeansChunksStored ==
    SkippedAsMigrated =>
        /\ txRagDB.tx_chunks = TxChunksOf(index.tx)
        /\ txRagDB.sum_chunks = TxChunksOf(index.sum)

\* the migration ran to its end in one load and a later load skipped it
MigratedThenSkipped ==
    /\ SkippedAsMigrated
    /\ Len(index.tx) > 0
    /\ txRagDB.tx_chunks = TxChunksOf(index.tx)
    /\ txRagDB.sum_chunks = TxChunksOf(index.sum)
    /\ txRagDB.raw = {"tx_docs", "sum_docs"}

---------------------------------------------------------------------------
(* ChatPage: conversations, sends and the apiRequest calls in flight.      *)
(* React renders between two events, so a handler reads the state the      *)
(* event before it left; an apiRequest call keeps the messages and the     *)
(* currentConversationId of the render its handleSend ran in.  A message   *)
(* carries the number of the call it belongs to (0: the greeting), which   *)
(* the code does not store.                                                *)

MaxSends == 2          \* messages sent
MaxConversations == 2  \* conversations the user creates by hand
MaxNow == 2            \* latest reading of the clock, in milliseconds
MaxTimers == 2         \* deferred creations waiting at one time

\* const sortByUpdatedAtDesc = (arr) => [...arr].sort(...)
sortByUpdatedAtDesc(arr) ==
    LET order == SortDesc([n \in 1..Len(arr) |-> n],
                          [n \in 1..Len(arr) |-> arr[n].updatedAt])
    IN  [n \in 1..Len(order) |-> arr[order[n]]]

\* the greeting every new conversation starts with
Greeting == [id |-> 1, text |-> "greeting", sender |-> "bot", call |-> 0]

\* newConversation of createNewConversation at clock reading t: the id is
\* Date.now().toString()
NewConversation(t) ==
    [id |-> t, title |-> "new chat", messages |-> <<Greeting>>,
     createdAt |-> t, updatedAt |-> t]

createNewConversation(p) ==
    [p EXCEPT !.conversations = sortByUpdatedAtDesc(<<NewConversation(p.now)>> \o @),
              !.currentConversationId = Some(p.now)]

\* deleteConversation that leaves the current conversation's id as it is
deleteConversationOnly(p, id) ==
    [p EXCEPT !.conversations =
        sortByUpdatedAtDesc(SelectSeq(@, LAMBDA conv : conv.id # id))]

\* deleteConversation(id): the updater of setConversations, the
\* setCurrentConversationId and the setTimeout inside it
deleteConversation(p, id) ==
    LET updated == sortByUpdatedAtDesc(
                       SelectSeq(p.conversations, LAMBDA conv : conv.id # id))
    IN  IF Some(id) = p.currentConversationId
        THEN IF Len(updated) > 0
             THEN [p EXCEPT !.conversations = updated,
                            !.currentConversationId = Some(updated[1].id)]
             ELSE [p EXCEPT !.conversations = updated, !.timers = @ + 1]
        ELSE [p EXCEPT !.conversations = updated]

\* const messages = currentConversation?.messages || []
Messages(p) ==
    LET found == SelectSeq(p.conversations,
                           LAMBDA conv : Some(conv.id) = p.currentConversationId)
    IN  IF found = <<>> THEN <<>> ELSE found[1].messages

\* the updater of handleSend's and of apiRequest's setConversations: the
\* message goes to every conversation of that id, and the list is sorted
WithMessage(convs, id, message, title, now) ==
    sortByUpdatedAtDesc(
        [n \in 1..Len(convs) |->
            IF convs[n].id = id
            THEN [convs[n] EXCEPT
                    !.title = IF title # None /\ @ = "new chat"
                                 /\ Len(convs[n].messages) = 1
                              THEN The(title) ELSE @,
                    !.messages = Append(@, message),
                    !.updatedAt = now]
            ELSE convs[n]])

\* the texts typed into the input: two questions and a blank
Texts == {"skolko", "privet", " "}

\* !inputValue.trim()
IsBlank(text) == text \in {"", " "}

\* classifyQuery: "skolko" is among the structured hints
classifyQuery(q) == IF q = "skolko" THEN "structured" ELSE "semantic"

\* the apiRequest call handleSend starts: its closure and where it stands
NewCall(p, text) ==
    [n |-> Len(p.calls) + 1,
     conv |-> The(p.currentConversationId),
     len |-> Len(Messages(p)),
     route |-> classifyQuery(text),
     pc |-> IF classifyQuery(text) = "structured" THEN "structured" ELSE "hybrid",
     tried |-> <<>>,
     ctx |-> None,
     sent |-> None]

\* handleSend up to the start of apiRequest
handleSend(p, text) ==
    LET userMessage == [id |-> Len(Messages(p)) + 1, text |-> text,
                        sender |-> "user", call |-> Len(p.calls) + 1]
    IN  [p EXCEPT !.conversations = WithMessage(@, The(p.currentConversationId),
                                                userMessage, Some(text), p.now),
                  !.calls = Append(@, NewCall(p, text))]

\* a source of context was asked and did or did not yield one
Asked(call, source, yielded, next) ==
    [call EXCEPT !.tried = Append(@, [source |-> source, yielded |-> yielded]),
                 !.ctx = IF yielded THEN Some(source) ELSE @,
                 !.pc = IF yielded THEN "chat" ELSE next]

\* the structured route: the tool's snippet is the context
AfterStructured(call) == [call EXCEPT !.ctx = Some("tool"), !.pc = "chat"]

\* the hybrid block: lazy load, search, context from the hits
AfterHybrid(call, outcome) == Asked(call, "hybrid", outcome = "hits", "retriever")

\* if (!contextAssembled && retrieverRef.current) { ... }
AfterRetriever(call, retrieverRef, outcome) ==
    IF ~retrieverRef THEN [call EXCEPT !.pc = "fallback"]
    ELSE Asked(call, "retriever", outcome = "context", "fallback")

\* the raw-index fallback giving up the call when it yields nothing
AfterFallbackGivingUp(call, ragIndex, outcome) ==
    IF ~ragIndex THEN [call EXCEPT !.pc = "done"]
    ELSE Asked(call, "fallback", outcome = "context", "done")

\* if (!contextAssembled && ragIndex && ragIndex.chunks?.length) { ... }
AfterFallback(call, ragIndex, outcome) ==
    IF ~ragIndex THEN [call EXCEPT !.pc = "chat"]
    ELSE Asked(call, "fallback", outcome = "context", "chat")

\* messagesForApi: the history, or the history wrapped with the context
MessagesForApi(call) == IF call.ctx = None THEN "history" ELSE The(call.ctx)

\* botMessage of the call: the answer, or the text of the catch block
BotMessage(call, outcome) ==
    [id |-> call.len + 2, text |-> outcome, sender |-> "bot", call |-> call.n]

\* a reply that is dropped when a later call has been answered already
WithReplyInSequence(p, i, outcome) ==
    LET call == p.calls[i]
        late == \E j \in (i + 1)..Len(p.calls) : p.calls[j].pc = "done"
    IN  [p EXCEPT !.conversations =
                      IF late THEN @
                      ELSE WithMessage(@, call.conv, BotMessage(call, outcome),
                                       None, p.now),
                  !.calls[i] = [call EXCEPT !.sent = Some(MessagesForApi(call)),
                                            !.pc = "done"]]

\* the chat completion request of call i and the setConversations that
\* appends its answer or its error message
WithReply(p, i, outcome) ==
    LET call == p.calls[i]
    IN  [p EXCEPT !.conversations =
                      WithMessage(@, call.conv, BotMessage(call, outcome),
                                  None, p.now),
                  !.calls[i] = [call EXCEPT !.sent = Some(MessagesForApi(call)),
                                            !.pc = "done"]]

\* the page after its mount effects: no saved conversations, so one new
\* conversation; the Retriever and the raw index loaded or not
MountedPages ==
    { [createNewConversation(NoPage) EXCEPT
          !.now = 1, !.retrieverRef = r, !.ragIndex = x] : r, x \in BOOLEAN }

\* what the actions of the page leave alone; req names the handler that
\* ran last
PageFrame ==
    UNCHANGED <<index, db, hybrid, pc, embedCalls, resp, picked, ret, threw,
                trace, idb, txRagDB>>

InitPage ==
    /\ index = [kb |-> <<>>, tx |-> <<>>, sum |-> <<>>]
    /\ db = None
    /\ hybrid = NewHybrid
    /\ pc = "idle"
    /\ req = [op |-> "none"]
    /\ embedCalls = 0
    /\ resp = None
    /\ picked = <<>>
    /\ ret = None
    /\ threw = FALSE
    /\ trace = <<>>
    /\ idb = NoStore
    /\ txRagDB = NoTxStore
    /\ page \in MountedPages

\* time passes
Tick ==
    /\ page.now < MaxNow
    /\ page' = [page EXCEPT !.now = @ + 1]
    /\ req' = [op |-> "tick"]
    /\ PageFrame

\* the button "new chat"
CreateNewConversation ==
    /\ Len(page.conversations) < MaxConversations
    /\ page' = createNewConversation(page)
    /\ req' = [op |-> "createNewConversation"]
    /\ PageFrame

\* a click on a conversation of the sidebar
SelectConversation(id) ==
    /\ \E n \in 1..Len(page.conversations) : page.conversations[n].id = id
    /\ page.currentConversationId # Some(id)
    /\ page' = [page EXCEPT !.currentConversationId = Some(id)]
    /\ req' = [op |-> "setCurrentConversationId", id |-> id]
    /\ PageFrame

\* a click on the bin of a conversation of the sidebar
DeleteConversation(id) ==
    /\ \E n \in 1..Len(page.conversations) : page.conversations[n].id = id
    /\ page.timers < MaxTimers
    /\ page' = deleteConversation(page, id)
    /\ req' = [op |-> "deleteConversation", id |-> id,
               current |-> page.currentConversationId]
    /\ PageFrame

\* setTimeout(() => createNewConversation(), 0) comes due
TimerFires ==
    /\ page.timers > 0
    /\ page' = [createNewConversation(page) EXCEPT !.timers = @ - 1]
    /\ req' = [op |-> "setTimeout"]
    /\ PageFrame

\* handleSend with text in the input
HandleSend(text) ==
    /\ ~IsBlank(text)
    /\ page.currentConversationId # None
    /\ Len(page.calls) < MaxSends
    /\ page' = handleSend(page, text)
    /\ req' = [op |-> "handleSend", text |-> text]
    /\ PageFrame

StepStructured(i) ==
    /\ page.calls[i].pc = "structured"
    /\ page' = [page EXCEPT !.calls[i] = AfterStructured(@)]
    /\ req' = [op |-> "apiRequest", call |-> i]
    /\ PageFrame

StepHybrid(i, outcome) ==
    /\ page.calls[i].pc = "hybrid"
    /\ outcome = "load failed" => ~page.hybridRef
    /\ page' = [page EXCEPT !.calls[i] = AfterHybrid(@, outcome),
                            !.hybridRef = @ \/ outcome # "load failed"]
    /\ req' = [op |-> "apiRequest", call |-> i]
    /\ PageFrame

StepRetriever(i, outcome) ==
    /\ page.calls[i].pc = "retriever"
    /\ page' = [page EXCEPT !.calls[i] = AfterRetriever(@, page.retrieverRef, outcome)]
    /\ req' = [op |-> "apiRequest", call |-> i]
    /\ PageFrame

StepFallback(i, outcome) ==
    /\ page.calls[i].pc = "fallback"
    /\ page' = [page EXCEPT !.calls[i] = AfterFallback(@, page.ragIndex, outcome)]
    /\ req' = [op |-> "apiRequest", call |-> i]
    /\ PageFrame

StepChat(i, outcome) ==
    /\ page.calls[i].pc = "chat"
    /\ page' = WithReply(page, i, outcome)
    /\ req' = [op |-> "apiRequest", call |-> i]
    /\ PageFrame

\* a step of apiRequest call i
CallStep(i) ==
    /\ i \in 1..Len(page.calls)
    /\ \/ StepStructured(i)
       \/ \E outcome \in {"load failed", "no hits", "hits"} : StepHybrid(i, outcome)
       \/ \E outcome \in {"null", "empty context", "context"} : StepRetriever(i, outcome)
       \/ \E outcome \in {"no embedding", "empty context", "context"} :
             StepFallback(i, outcome)
       \/ \E outcome \in {"answer", "error"} : StepChat(i, outcome)

\* sends and calls in one conversation
NextSend ==
    \/ \E text \in Texts : HandleSend(text)
    \/ \E i \in 1..MaxSends : CallStep(i)

SpecSend == InitPage /\ [][NextSend]_vars

\* every await of apiRequest settles
SpecSendFair == SpecSend /\ \A i \in 1..MaxSends : WF_vars(CallStep(i))

\* the conversations of the page created, selected and deleted, with
\* structured questions sent and answered in them
InitConversations ==
    /\ InitPage
    /\ ~page.retrieverRef
    /\ ~page.ragIndex

NextConversations ==
    \/ Tick
    \/ CreateNewConversation
    \/ \E id \in 0..MaxNow : SelectConversation(id)
    \/ \E id \in 0..MaxNow : DeleteConversation(id)
    \/ TimerFires
    \/ HandleSend("skolko")
    \/ \E i \in 1..Len(page.calls) : StepStructured(i)
    \/ \E i \in 1..Len(page.calls), outcome \in {"answer", "error"} :
          StepChat(i, outcome)

SpecConversations == InitConversations /\ [][NextConversations]_vars

---------------------------------------------------------------------------
(* The conversation list after deletions *)

\* the id names a conversation of the list
Names(id, convs) == \E n \in 1..Len(convs) : Some(convs[n].id) = id

\* this step takes the current conversation off the list
DeletesCurrent ==
    /\ Names(page.currentConversationId, page.conversations)
    /\ ~Names(page.currentConversationId, page'.conversations)

\* C30: once no deferred creation is waiting, the conversation list is not
\* empty and currentConversationId names a conversation of it; the step
\* that deletes the current conversation makes a most recently updated
\* one of the remaining conversations current, or defers the creation of
\* a new conversation when none remains.
C30_CurrentAlwaysInList ==
    /\ [](page.timers = 0 =>
             /\ Len(page.conversations) > 0
             /\ Names(page.currentConversationId, page.conversations))
    /\ [][DeletesCurrent =>
             IF Len(page'.conversations) > 0
             THEN /\ Names(page'.currentConversationId, page'.conversations)
                  /\ \A n, m \in 1..Len(page'.conversations) :
                        Some(page'.conversations[n].id) = page'.currentConversationId
                            => page'.conversations[n].updatedAt
                                    >= page'.conversations[m].updatedAt
                  /\ page'.timers = page.timers
             ELSE page'.timers = page.timers + 1]_vars

\* the only conversation was deleted and the creation deferred by the
\* deletion has run: the new conversation is the list, and is current
C30_Witness ==
    /\ req.op = "setTimeout"
    /\ page.timers = 0
    /\ Len(page.conversations) = 1
    /\ page.conversations[1].id = page.now
    /\ page.conversations[1].id > 0
    /\ page.currentConversationId = Some(page.conversations[1].id)

\* the current conversation was deleted and the other one, which a send
\* had updated after the deleted one was created, has become current
SwitchedToMostRecent ==
    /\ req.op = "deleteConversation"
    /\ req.current = Some(req.id)
    /\ Len(page.conversations) = 1
    /\ page.currentConversationId = Some(page.conversations[1].id)
    /\ page.conversations[1].updatedAt > req.id
    /\ page.conversations[1].id < req.id

---------------------------------------------------------------------------
(* Sends and replies in one conversation *)

\* the conversation the page started with
TheConversation == page.conversations[1]

\* the numbers of the calls the messages of a conversation belong to
CallsOf(conv) == [n \in 1..Len(conv.messages) |-> conv.messages[n].call]

\* the bot message of call i is in the conversation
Replied(i) ==
    \E n \in 1..Len(TheConversation.messages) :
        /\ TheConversation.messages[n].sender = "bot"
        /\ TheConversation.messages[n].call = i

\* this step ends call i
Ends(i) ==
    /\ i \in 1..Len(page.calls)
    /\ page.calls[i].pc # "done"
    /\ page'.calls[i].pc = "done"

\* C23: no reply is cancelled, timed out or put in sequence: whenever a
\* call ends, its bot message is appended to the conversation as it then
\* is, whichever calls have ended before it, and stays there.
C23_RepliesAppendedInArrivalOrder ==
    /\ [][\A i \in 1..MaxSends :
             Ends(i) =>
                 /\ Len(page'.conversations[1].messages)
                        = Len(TheConversation.messages) + 1
                 /\ SubSeq(page'.conversations[1].messages, 1,
                           Len(TheConversation.messages)) = TheConversation.messages
                 /\ page'.conversations[1].messages[
                        Len(page'.conversations[1].messages)].call = i
                 /\ page'.conversations[1].messages[
                        Len(page'.conversations[1].messages)].sender = "bot"]_vars
    /\ [](\A i \in 1..Len(page.calls) : page.calls[i].pc = "done" => Replied(i))

\* two messages were sent before either was answered, the second was
\* answered first, and the late reply to the first is the last message
C23_Witness ==
    CallsOf(TheConversation) = <<0, 1, 2, 2, 1>>

\* C27: the ids of the messages of a conversation are pairwise distinct.
\* (Violated: the id of a bot message is the number of messages of the
\* render its handleSend ran in, plus 2.)
C27_MessageIdsDistinct ==
    \A c \in 1..Len(page.conversations) :
        \A n, m \in 1..Len(page.conversations[c].messages) :
            n # m => page.conversations[c].messages[n].id
                        # page.conversations[c].messages[m].id

\* the ids are distinct when no message is sent while a call is in flight
MessageIdsDistinctInTurn ==
    (\A i \in 1..Len(page.calls) :
        \A n \in 1..Len(TheConversation.messages) :
            (TheConversation.messages[n].call > i
             /\ TheConversation.messages[n].sender = "user")
                => \E m \in 1..(n - 1) :
                      /\ TheConversation.messages[m].call = i
                      /\ TheConversation.messages[m].sender = "bot")
        => C27_MessageIdsDistinct

---------------------------------------------------------------------------
(* The sources of context of the semantic route *)

Rank(source) ==
    CASE source = "hybrid" -> 1 [] source = "retriever" -> 2 [] OTHER -> 3

\* the sources call asked are in the order hybrid, retriever, fallback, a
\* source is asked only when none before it yielded a context, and what is
\* sent is the context of the one that yielded, or the plain history
SourcesInOrder(call) ==
    /\ Len(call.tried) >= 1
    /\ call.tried[1].source = "hybrid"
    /\ \A a, b \in 1..Len(call.tried) :
          a < b => /\ Rank(call.tried[a].source) < Rank(call.tried[b].source)
                   /\ ~call.tried[a].yielded
    /\ \/ Len(call.tried) = 3
       \/ call.tried[Len(call.tried)].yielded
       \/ \A source \in {"retriever", "fallback"} :
             (\A a \in 1..Len(call.tried) : call.tried[a].source # source)
                => IF source = "retriever" THEN ~page.retrieverRef
                   ELSE ~page.ragIndex
    /\ call.sent = IF call.tried[Len(call.tried)].yielded
                   THEN Some(call.tried[Len(call.tried)].source)
                   ELSE Some("history")

\* C24: on the semantic route the sources are asked in the order hybrid,
\* Retriever, raw index, the first that yields a context is the only one
\* used, and when all fail or yield nothing the chat completion request is
\* sent with the plain history; a bot message is appended for every call
\* in the end.
C24_UngroundedAnswerWhenNoContext ==
    /\ [](\A i \in 1..Len(page.calls) :
              (page.calls[i].route = "semantic" /\ page.calls[i].pc = "done")
                  => SourcesInOrder(page.calls[i]) /\ Replied(i))
    /\ \A i \in 1..MaxSends :
          (Len(page.calls) >= i)
              ~> (Len(page.calls) >= i /\ page.calls[i].pc = "done" /\ Replied(i))

\* the hybrid load failed, the Retriever returned null, the raw index got
\* no embedding, and the request went out with the plain history; the
\* service being down too, the error text was appended
C24_Witness ==
    /\ Len(page.calls) >= 1
    /\ page.calls[1].pc = "done"
    /\ page.calls[1].route = "semantic"
    /\ page.calls[1].tried = << [source |-> "hybrid", yielded |-> FALSE],
                                [source |-> "retriever", yielded |-> FALSE],
                                [source |-> "fallback", yielded |-> FALSE] >>
    /\ ~page.hybridRef
    /\ page.calls[1].sent = Some("history")
    /\ \E n \in 1..Len(TheConversation.messages) :
          /\ TheConversation.messages[n].call = 1
          /\ TheConversation.messages[n].sender = "bot"
          /\ TheConversation.messages[n].text = "error"

=============================================================================
